---- MODULE Spec2Model ----
(***************************************************************************)
(* lawbench: the Governor (CheckStructuralIntegrity with throttle          *)
(* hysteresis and the deployment gate, ApplyRecovery), the                 *)
(* TailDivergenceTracker (ring buffer, percentiles, EstimateR) and the     *)
(* autoscaler (ShouldScale), the stateless checkers (Validate, FitUSL)    *)
(* and the example HTTP middleware built on the Governor.                  *)
(*                                                                         *)
(* Reals are fixed-point integers:                                         *)
(*   r and the thresholds      in units of 1e-6  (RScale)                  *)
(*   ScalingRatio              in units of 1e-2                            *)
(*   FeigenbaumDelta           in units of 1e-4                            *)
(*   time                      in seconds since the Governor was built     *)
(* The metrics the model draws make every division of an evaluation       *)
(* exact; a recovery pulse is rounded down to a whole unit.                *)
(***************************************************************************)
EXTENDS Integers, Sequences, FiniteSets, TLC

VARIABLES
    g,        \* the Governor object (its fields, rdynamics nested); in SpecHTTP the
              \* LawBenchMiddleware object that owns it
    now,      \* the wall clock read by time.Now()
    call,     \* the last completed sequential call: inputs, state before, Action returned
    gpc,      \* racing goroutines: position inside CheckStructuralIntegrity
    gloc,     \* racing goroutines: locals (metrics, currentR, loaded values, returned Action)
    g0,       \* the Governor as it was before the racing calls began
    t,        \* the TailDivergenceTracker object
    mu,       \* holder of t.mu ("free" or a goroutine)
    tpc,      \* tracker goroutines: position
    tloc,     \* tracker goroutines: locals
    seen      \* per reader: the buffer states that existed during its EstimateR or GetStats call

vars == <<g, now, call, gpc, gloc, g0, t, mu, tpc, tloc, seen>>
govVars == <<g, now, call>>
raceVars == <<gpc, gloc, g0>>
tailVars == <<t, mu, tpc, tloc, seen>>

----------------------------------------------------------------------------
(* Fixed-point units and program constants *)

RScale == 10^6

FeigenbaumDelta == 46692
WarningThreshold == 2800000
DangerThreshold == 2900000
SaturationThreshold == 3000000
ThrottleExitThreshold == 2000000
ThrottleMinDuration == 60

(* Bounds of the model *)
MaxEvals == 2
MaxTime == 90
TickStep == 30
NumRacers == 2
MaxSamples == 2
MaxRecords == 3
RingSize == 4
MaxWrites == 5

Racers == 1 .. NumRacers
Writers == { "w1" }
Readers == { "r1" }
Free == "free"
Latencies == { 1, 5, 40 }

MaxInt(a, b) == IF a > b THEN a ELSE b

----------------------------------------------------------------------------
(* Inputs *)

\* <<ImmutableOpsVerified, MutableSharedState, SupervisedProcesses,
\*   UnsupervisedProcesses, ScalingRatio>>
RuntimeInputs ==
    { <<100,  90, 50, 0, 0>>,     \* r = 1.9
      <<0,     0,  0, 1, 0>>,     \* r = 2.0  (both denominators max(0,1))
      <<100, 170, 50, 0, 0>>,     \* r = 2.7
      <<100, 180, 50, 0, 0>>,     \* r = 2.8
      <<100, 190, 50, 0, 0>>,     \* r = 2.9
      <<100, 200, 50, 0, 0>>,     \* r = 3.0
      <<100, 100, 50, 5, 24>> }   \* r = 3.220608

\* <<DeltaCriticalCore, DeltaComplexity>>
DeployInputs ==
    { <<0, 0>>,                   \* no deployment event
      <<0, 100>>,                 \* pure debt
      <<50, 470>>,                \* ratio 9.4
      <<10000, 46692>>,           \* ratio exactly delta
      <<10000, 46693>>,           \* ratio just above delta
      <<50, 0>> }                 \* core work only

Metrics(ri, di) ==
    [ ImmutableOpsVerified  |-> ri[1],
      MutableSharedState    |-> ri[2],
      SupervisedProcesses   |-> ri[3],
      UnsupervisedProcesses |-> ri[4],
      ScalingRatio          |-> ri[5],
      DeltaCriticalCore     |-> di[1],
      DeltaComplexity       |-> di[2],
      EstimatedCoupling     |-> 0 ]

MetricsInputs == { Metrics(ri, di) : ri \in RuntimeInputs, di \in DeployInputs }

InitialRs == { 1500000, 3500000 }

----------------------------------------------------------------------------
(* runtime.go: the r-model *)

\* Faulty variant: a zero denominator drops the penalty instead of being
\* taken as 1.
CalculateSystemDNASkipZero(metrics) ==
    LET isolationPenalty ==
            IF metrics.ImmutableOpsVerified = 0 THEN 0
            ELSE (metrics.MutableSharedState * RScale)
                     \div metrics.ImmutableOpsVerified
        supervisionPenalty ==
            IF metrics.SupervisedProcesses = 0 THEN 0
            ELSE (metrics.UnsupervisedProcesses * RScale)
                     \div metrics.SupervisedProcesses
        scalingPenalty == metrics.ScalingRatio * FeigenbaumDelta
    IN  RScale + isolationPenalty + supervisionPenalty + scalingPenalty

\* Faulty variant: the supervision ratio is taken upside down.
CalculateSystemDNAInvertedSupervision(metrics) ==
    LET isolationPenalty ==
            (metrics.MutableSharedState * RScale)
                \div MaxInt(metrics.ImmutableOpsVerified, 1)
        supervisionPenalty ==
            (metrics.SupervisedProcesses * RScale)
                \div MaxInt(metrics.UnsupervisedProcesses, 1)
        scalingPenalty == metrics.ScalingRatio * FeigenbaumDelta
    IN  RScale + isolationPenalty + supervisionPenalty + scalingPenalty

CalculateSystemDNA(metrics) ==
    LET isolationPenalty ==
            (metrics.MutableSharedState * RScale)
                \div MaxInt(metrics.ImmutableOpsVerified, 1)
        supervisionPenalty ==
            (metrics.UnsupervisedProcesses * RScale)
                \div MaxInt(metrics.SupervisedProcesses, 1)
        scalingPenalty == metrics.ScalingRatio * FeigenbaumDelta
    IN  RScale + isolationPenalty + supervisionPenalty + scalingPenalty

\* Lines 480 and 735: the largest correction one pulse may apply, 1/delta in
\* units of 1e-6 (1/4.6692 = 0.214169...).
CriticalityScalingRatio == 214169

\* Line 745: a pulse landing within 0.0001 of 3.0 is moved to 3.0 * 0.999.
BoundaryEpsilon == 100
BoundarySnap == 2997000

\* Lines 722-739: the pulse for the current r.  desiredPulse is
\* (r - 3.0) * 1/(1 + mutable/immutable) * 0.5, rounded down.
\* Faulty variant: desiredPulse applied without the math.Min cap.
CorrectionPulseUncapped(rd, metrics) ==
    LET immutable == MaxInt(metrics.ImmutableOpsVerified, 1)
        instabilityDepth == rd.CurrentR - SaturationThreshold
    IN  (instabilityDepth * immutable)
            \div (2 * (immutable + metrics.MutableSharedState))

CorrectionPulse(rd, metrics) ==
    LET immutable == MaxInt(metrics.ImmutableOpsVerified, 1)
        instabilityDepth == rd.CurrentR - SaturationThreshold
        desiredPulse == (instabilityDepth * immutable)
                            \div (2 * (immutable + metrics.MutableSharedState))
    IN  IF desiredPulse < CriticalityScalingRatio
        THEN desiredPulse ELSE CriticalityScalingRatio

\* Lines 714-762: RDynamics.ApplyRecovery, one correction pulse.
ApplyRecovery(rd, metrics) ==
    IF ~rd.InSaturationZone
    THEN rd
    ELSE LET moved == rd.CurrentR - CorrectionPulse(rd, metrics)
             offBoundary ==
                 IF moved - SaturationThreshold < BoundaryEpsilon
                        /\ SaturationThreshold - moved < BoundaryEpsilon
                 THEN BoundarySnap ELSE moved
             newR == IF offBoundary < RScale THEN RScale ELSE offBoundary
         IN  [ rd EXCEPT !.CurrentR = newR,
                         !.History = Append(@, newR),
                         !.RecoveryEvents = @ + 1,
                         !.InSaturationZone = newR >= SaturationThreshold ]

\* Line 772: the guard of the recovery loop.
\* Faulty variant: <= in place of <, one pulse too many.
LoopContinuesInclusive(rd, iterations, maxIterations) ==
    rd.InSaturationZone /\ iterations <= maxIterations

LoopContinues(rd, iterations, maxIterations) ==
    rd.InSaturationZone /\ iterations < maxIterations

\* Lines 769-778: RDynamics.ApplyRecoveryUntilStable; the loop from the state
\* reached after `iterations` pulses.  Returns the r-model and the count.
RECURSIVE RecoveryLoop(_, _, _, _)
RecoveryLoop(rd, metrics, iterations, maxIterations) ==
    IF LoopContinues(rd, iterations, maxIterations)
    THEN RecoveryLoop(ApplyRecovery(rd, metrics), metrics,
                      iterations + 1, maxIterations)
    ELSE [ rd |-> rd, finalR |-> rd.CurrentR, iterations |-> iterations ]

ApplyRecoveryUntilStable(rd, metrics, maxIterations) ==
    RecoveryLoop(rd, metrics, 0, maxIterations)

----------------------------------------------------------------------------
(* Governor *)

NewGovernor(initialR) ==
    [ rdynamics |-> [ InitialR         |-> initialR,
                      CurrentR         |-> initialR,
                      History          |-> <<initialR>>,
                      RecoveryEvents   |-> 0,
                      InSaturationZone |-> initialR >= SaturationThreshold ],
      lastCheck             |-> 0,
      warningThreshold      |-> WarningThreshold,
      dangerThreshold       |-> DangerThreshold,
      saturationThreshold   |-> SaturationThreshold,
      inThrottleMode        |-> FALSE,
      throttleEnteredAt     |-> 0,
      throttleMinDuration   |-> ThrottleMinDuration,
      throttleExitThreshold |-> ThrottleExitThreshold,
      warnings              |-> 0,
      throttleEvents        |-> 0,
      deployBlocked         |-> 0 ]

MkAction(type, reason, metrics, ts) ==
    [ Type |-> type, Reason |-> reason, Metrics |-> metrics, Timestamp |-> ts ]

\* Lines 562-577: the r bookkeeping done before any decision.
\* Faulty variant: r = 3.0 itself not counted as saturation.
RecordRStrict(gv, currentR, ts) ==
    [ gv EXCEPT !.rdynamics.CurrentR = currentR,
                !.rdynamics.History = Append(@, currentR),
                !.rdynamics.InSaturationZone = currentR > gv.saturationThreshold,
                !.lastCheck = ts ]

RecordR(gv, currentR, ts) ==
    [ gv EXCEPT !.rdynamics.CurrentR = currentR,
                !.rdynamics.History = Append(@, currentR),
                !.rdynamics.InSaturationZone = currentR >= gv.saturationThreshold,
                !.lastCheck = ts ]

\* Line 592: is this call a deployment event?
\* Faulty variant: the DeltaComplexity disjunct forgotten.
IsDeploymentCoreOnly(metrics) ==
    metrics.DeltaCriticalCore > 0

IsDeployment(metrics) ==
    metrics.DeltaCriticalCore > 0 \/ metrics.DeltaComplexity > 0

\* Line 594: no core work but added complexity.
PureDebt(metrics) ==
    metrics.DeltaCriticalCore = 0 /\ metrics.DeltaComplexity > 0

\* Lines 616-619: growthRatio > maxRatio, with growthRatio = dC / dCore in
\* float64: x/0 is +Inf for x > 0, NaN for x = 0 and -Inf for x < 0, and only
\* +Inf compares greater; otherwise cross-multiplied, the sign of dCore kept.
\* Faulty variant: the ratio taken upside down (dCore / dC).
RatioExceedsInverted(metrics) ==
    metrics.DeltaComplexity > 0
        /\ metrics.DeltaCriticalCore * 10000 > FeigenbaumDelta * metrics.DeltaComplexity

\* Faulty variant: >= in place of >.
RatioExceedsInclusive(metrics) ==
    metrics.DeltaCriticalCore > 0
        /\ metrics.DeltaComplexity * 10000 >= FeigenbaumDelta * metrics.DeltaCriticalCore

RatioExceeds(metrics) ==
    IF metrics.DeltaCriticalCore > 0
    THEN metrics.DeltaComplexity * 10000 > FeigenbaumDelta * metrics.DeltaCriticalCore
    ELSE IF metrics.DeltaCriticalCore = 0
    THEN metrics.DeltaComplexity > 0
    ELSE metrics.DeltaComplexity * 10000 < FeigenbaumDelta * metrics.DeltaCriticalCore

\* Line 659: the hysteresis exit condition.
CanExitThrottle(gv, currentR, ts) ==
    /\ ts - gv.throttleEnteredAt >= gv.throttleMinDuration
    /\ currentR < gv.throttleExitThreshold

\* Lines 726-786: the zones below saturation.
\* Faulty variant: strict lower bounds.
ZoneBelowSaturationStrict(gv, currentR) ==
    IF currentR > gv.dangerThreshold THEN "PACING"
    ELSE IF currentR > gv.warningThreshold THEN "WARNING"
    ELSE "STABLE"

ZoneBelowSaturation(gv, currentR) ==
    IF currentR >= gv.dangerThreshold THEN "PACING"
    ELSE IF currentR >= gv.warningThreshold THEN "WARNING"
    ELSE "STABLE"

\* Line 651: the guard of the saturation/hysteresis block.
\* Faulty variant: the inThrottleMode disjunct forgotten.
InThrottleBlockNoHysteresis(gv, currentR) ==
    currentR >= gv.saturationThreshold

InThrottleBlock(gv, currentR) ==
    currentR >= gv.saturationThreshold \/ gv.inThrottleMode

\* Lines 645-787, Phase II, on the Governor gv that already holds currentR.
RuntimePhase(gv, metrics, currentR, ts) ==
    IF InThrottleBlock(gv, currentR)
    THEN IF gv.inThrottleMode /\ ~CanExitThrottle(gv, currentR, ts)
         THEN [ gov |-> gv,
                action |-> MkAction("THROTTLE", "THROTTLE MODE (Hysteresis)", metrics, ts) ]
         ELSE \* not in throttle mode, or the mode was just cleared at line 660:
              \* line 689 sees inThrottleMode false and enters it
              [ gov |-> [ gv EXCEPT !.inThrottleMode = TRUE,
                                    !.throttleEnteredAt = ts,
                                    !.throttleEvents = @ + 1 ],
                action |-> MkAction("THROTTLE", "SATURATION DETECTED", metrics, ts) ]
    ELSE LET zone == ZoneBelowSaturation(gv, currentR) IN
         IF zone = "PACING"
         THEN [ gov |-> gv, action |-> MkAction("PACING", "DANGER", metrics, ts) ]
         ELSE IF zone = "WARNING"
         THEN [ gov |-> [ gv EXCEPT !.warnings = @ + 1 ],
                action |-> MkAction("WARNING", "WARNING", metrics, ts) ]
         ELSE [ gov |-> gv, action |-> MkAction("STABLE", "STABLE", metrics, ts) ]

\* Lines 558-787.
CheckStructuralIntegrity(gv, metrics, ts) ==
    LET currentR == CalculateSystemDNA(metrics)
        g1 == RecordR(gv, currentR, ts)
    IN  IF IsDeployment(metrics) /\ PureDebt(metrics)
        THEN [ gov |-> [ g1 EXCEPT !.deployBlocked = @ + 1 ],
               action |-> MkAction("BLOCK_DEPLOY", "Pure Technical Debt", metrics, ts) ]
        ELSE IF IsDeployment(metrics) /\ RatioExceeds(metrics)
        THEN [ gov |-> [ g1 EXCEPT !.deployBlocked = @ + 1 ],
               action |-> MkAction("BLOCK_DEPLOY", "Complexity Growth Ratio", metrics, ts) ]
        ELSE RuntimePhase(g1, metrics, currentR, ts)

\* Line 792.
MaxIterations == 20

\* Line 797: did the loop leave the saturation zone?
\* Faulty variant: the throttle exit threshold in place of the saturation one.
RecoverySucceededExitThreshold(gv, finalR) ==
    finalR < gv.throttleExitThreshold

RecoverySucceeded(gv, finalR) ==
    ~(finalR >= gv.saturationThreshold)

\* Lines 791-803: Governor.ApplyRecovery.  The r-model is changed by the loop
\* whether or not the call succeeds; the pulses are counted as throttle
\* events only when it does.
GovernorApplyRecovery(gv, metrics) ==
    LET res == ApplyRecoveryUntilStable(gv.rdynamics, metrics, MaxIterations)
        g1 == [ gv EXCEPT !.rdynamics = res.rd ]
    IN  IF RecoverySucceeded(gv, res.finalR)
        THEN [ gov |-> [ g1 EXCEPT !.throttleEvents = @ + res.iterations ],
               ok |-> TRUE, finalR |-> res.finalR, iterations |-> res.iterations ]
        ELSE [ gov |-> g1,
               ok |-> FALSE, finalR |-> res.finalR, iterations |-> res.iterations ]

\* Lines 806-817.
\* Faulty variant: warnings_issued read from the throttle counter.
GetStatisticsMiswired(gv) ==
    [ current_r         |-> gv.rdynamics.CurrentR,
      initial_r         |-> gv.rdynamics.InitialR,
      in_saturation     |-> gv.rdynamics.InSaturationZone,
      warnings_issued   |-> gv.throttleEvents,
      throttles_applied |-> gv.throttleEvents,
      deploys_blocked   |-> gv.deployBlocked,
      recovery_events   |-> gv.rdynamics.RecoveryEvents,
      history_length    |-> Len(gv.rdynamics.History) ]

GetStatistics(gv) ==
    [ current_r         |-> gv.rdynamics.CurrentR,
      initial_r         |-> gv.rdynamics.InitialR,
      in_saturation     |-> gv.rdynamics.InSaturationZone,
      warnings_issued   |-> gv.warnings,
      throttles_applied |-> gv.throttleEvents,
      deploys_blocked   |-> gv.deployBlocked,
      recovery_events   |-> gv.rdynamics.RecoveryEvents,
      history_length    |-> Len(gv.rdynamics.History) ]

----------------------------------------------------------------------------
(* Sequential specification: one caller, the clock advancing between calls *)

NoCall == [ op |-> "none" ]

RaceIdle ==
    /\ gpc = <<>>
    /\ gloc = <<>>
    /\ g0 = NoCall

TailIdle ==
    /\ t = NoCall
    /\ mu = Free
    /\ tpc = <<>>
    /\ tloc = <<>>
    /\ seen = <<>>

Init ==
    /\ \E initialR \in InitialRs : g = NewGovernor(initialR)
    /\ now = 0
    /\ call = NoCall
    /\ RaceIdle
    /\ TailIdle

\* The calls made so far; the model stops calling after MaxEvals of them.
CallsMade == IF call.op = "none" THEN 0 ELSE call.n

\* The action types the evaluations made so far returned, in order.
TypesReturned == IF call.op = "none" THEN <<>> ELSE call.types

Evaluate(metrics) ==
    /\ CallsMade < MaxEvals
    /\ LET res == CheckStructuralIntegrity(g, metrics, now) IN
        /\ g' = res.gov
        /\ call' = [ op |-> "evaluate", metrics |-> metrics, at |-> now,
                     r |-> CalculateSystemDNA(metrics), pre |-> g,
                     action |-> res.action, n |-> CallsMade + 1,
                     types |-> Append(TypesReturned, res.action.Type),
                     stats |-> GetStatistics(res.gov) ]
    /\ UNCHANGED <<now, raceVars, tailVars>>

\* The metrics handed to ApplyRecovery: only the isolation counts matter.
RecoveryInputs ==
    { Metrics(<<100,   0, 50, 0, 0>>, <<0, 0>>),     \* perfect isolation
      Metrics(<<100, 100, 50, 5, 24>>, <<0, 0>>) }   \* isolation ratio 1

Recover(metrics) ==
    /\ CallsMade < MaxEvals
    /\ LET res == GovernorApplyRecovery(g, metrics) IN
        /\ g' = res.gov
        /\ call' = [ op |-> "applyRecovery", metrics |-> metrics, at |-> now,
                     pre |-> g, ok |-> res.ok, finalR |-> res.finalR,
                     iterations |-> res.iterations, n |-> CallsMade + 1,
                     types |-> TypesReturned,
                     stats |-> GetStatistics(res.gov) ]
    /\ UNCHANGED <<now, raceVars, tailVars>>

Tick ==
    /\ now + TickStep <= MaxTime
    /\ now' = now + TickStep
    /\ UNCHANGED <<g, call, raceVars, tailVars>>

Next ==
    \/ \E metrics \in MetricsInputs : Evaluate(metrics)
    \/ \E metrics \in RecoveryInputs : Recover(metrics)
    \/ Tick

Spec == Init /\ [][Next]_vars

----------------------------------------------------------------------------
(* Concurrent callers of one Governor.  The Governor has no lock: each      *)
(* goroutine runs CheckStructuralIntegrity as a sequence of plain loads and *)
(* stores of the shared fields, interleaved with the other goroutines.      *)

\* <<runtime input, deploy input>> pairs the racing callers draw from
RaceInputs ==
    { Metrics(<<100,  90, 50, 0, 0>>, <<0, 0>>),      \* r = 1.9, Stable
      Metrics(<<100, 180, 50, 0, 0>>, <<0, 0>>),      \* r = 2.8, Warning
      Metrics(<<100, 200, 50, 0, 0>>, <<0, 0>>),      \* r = 3.0, Throttle
      Metrics(<<100,  90, 50, 0, 0>>, <<0, 100>>) }   \* pure debt, BlockDeploy

InitRace ==
    /\ \E initialR \in InitialRs :
          /\ g = NewGovernor(initialR)
          /\ g0 = NewGovernor(initialR)
    /\ now = 0
    /\ call = NoCall
    /\ gpc = [ p \in Racers |-> "idle" ]
    /\ gloc = [ p \in Racers |-> NoCall ]
    /\ TailIdle

\* Lines 558-562: entry; now and currentR are locals.
RaceBegin(p, metrics) ==
    /\ gpc[p] = "idle"
    /\ gloc' = [ gloc EXCEPT ![p] =
                   [ op |-> "evaluate", metrics |-> metrics, at |-> now,
                     currentR |-> CalculateSystemDNA(metrics),
                     loaded |-> <<>>, counter |-> "none", action |-> NoCall ] ]
    /\ gpc' = [ gpc EXCEPT ![p] = "storeR" ]
    /\ UNCHANGED <<g, now, call, g0, tailVars>>

\* Line 563.
RaceStoreCurrentR(p) ==
    /\ gpc[p] = "storeR"
    /\ g' = [ g EXCEPT !.rdynamics.CurrentR = gloc[p].currentR ]
    /\ gpc' = [ gpc EXCEPT ![p] = "loadHistory" ]
    /\ UNCHANGED <<now, call, gloc, g0, tailVars>>

\* Line 564, the read of g.rdynamics.History that append() receives.
RaceLoadHistory(p) ==
    /\ gpc[p] = "loadHistory"
    /\ gloc' = [ gloc EXCEPT ![p].loaded = g.rdynamics.History ]
    /\ gpc' = [ gpc EXCEPT ![p] = "storeHistory" ]
    /\ UNCHANGED <<g, now, call, g0, tailVars>>

\* Line 564, the store of append()'s result; lines 565 and 577.
RaceStoreHistory(p) ==
    /\ gpc[p] = "storeHistory"
    /\ g' = [ g EXCEPT
                !.rdynamics.History = Append(gloc[p].loaded, gloc[p].currentR),
                !.rdynamics.InSaturationZone =
                    gloc[p].currentR >= g.saturationThreshold,
                !.lastCheck = gloc[p].at ]
    /\ gpc' = [ gpc EXCEPT ![p] = "decide" ]
    /\ UNCHANGED <<now, call, gloc, g0, tailVars>>

\* Lines 592-786 up to the counter increment: the decision on the fields as
\* they are now; the ++ of the chosen counter is a later load and store.
RaceDecide(p) ==
    /\ gpc[p] = "decide"
    /\ LET m == gloc[p].metrics
           blocked == IsDeployment(m) /\ (PureDebt(m) \/ RatioExceeds(m))
           res == RuntimePhase(g, m, gloc[p].currentR, gloc[p].at)
           counter == IF blocked THEN "deployBlocked"
                      ELSE IF res.gov.throttleEvents # g.throttleEvents
                      THEN "throttleEvents"
                      ELSE IF res.gov.warnings # g.warnings THEN "warnings"
                      ELSE "none"
           action == IF blocked
                     THEN MkAction("BLOCK_DEPLOY",
                                   IF PureDebt(m) THEN "Pure Technical Debt"
                                   ELSE "Complexity Growth Ratio", m, gloc[p].at)
                     ELSE res.action
       IN  /\ g' = IF blocked THEN g
                   ELSE [ res.gov EXCEPT !.throttleEvents = g.throttleEvents,
                                         !.warnings = g.warnings ]
           /\ gloc' = [ gloc EXCEPT ![p].counter = counter, ![p].action = action ]
           /\ gpc' = [ gpc EXCEPT ![p] =
                         IF counter = "none" THEN "done" ELSE "loadCounter" ]
    /\ UNCHANGED <<now, call, g0, tailVars>>

\* Lines 595, 620, 692, 751: the load half of counter++.
RaceLoadCounter(p) ==
    /\ gpc[p] = "loadCounter"
    /\ gloc' = [ gloc EXCEPT ![p].loaded = g[gloc[p].counter] ]
    /\ gpc' = [ gpc EXCEPT ![p] = "storeCounter" ]
    /\ UNCHANGED <<g, now, call, g0, tailVars>>

\* The store half of counter++, then the return.
RaceStoreCounter(p) ==
    /\ gpc[p] = "storeCounter"
    /\ g' = [ g EXCEPT ![gloc[p].counter] = gloc[p].loaded + 1 ]
    /\ gpc' = [ gpc EXCEPT ![p] = "done" ]
    /\ UNCHANGED <<now, call, gloc, g0, tailVars>>

NextRace ==
    \E p \in Racers :
        \/ \E metrics \in RaceInputs : RaceBegin(p, metrics)
        \/ RaceStoreCurrentR(p)
        \/ RaceLoadHistory(p)
        \/ RaceStoreHistory(p)
        \/ RaceDecide(p)
        \/ RaceLoadCounter(p)
        \/ RaceStoreCounter(p)

SpecRace == InitRace /\ [][NextRace]_vars

----------------------------------------------------------------------------
(* TailDivergenceTracker: a ring buffer under t.mu, written by Record and   *)
(* read by percentile; EstimateR is built from two percentile calls.        *)
(* Latencies are integers; percentile ranks are per mille (P50 = 500,       *)
(* P99 = 990); EstimateR's result is a fraction <<numerator, denominator>>. *)

NewTailDivergenceTracker(maxSamples) ==
    LET n == IF maxSamples <= 0 THEN 1000 ELSE maxSamples IN
    [ samples     |-> [ i \in 1 .. n |-> 0 ],
      maxSamples  |-> n,
      writeIndex  |-> 0,
      sampleCount |-> 0,
      cacheValid  |-> FALSE ]

effectiveSampleCount(tr) ==
    IF tr.sampleCount < tr.maxSamples THEN tr.sampleCount ELSE tr.maxSamples

\* Lines 474-477, the body of Record (writeIndex is 0-based, samples 1-based).
\* Faulty variant: the index advanced before the write.
RecordBodyPreIncrement(tr, latency) ==
    [ tr EXCEPT !.samples[((tr.writeIndex + 1) % tr.maxSamples) + 1] = latency,
                !.writeIndex = (tr.writeIndex + 1) % tr.maxSamples,
                !.sampleCount = @ + 1,
                !.cacheValid = FALSE ]

RecordBody(tr, latency) ==
    [ tr EXCEPT !.samples[tr.writeIndex + 1] = latency,
                !.writeIndex = (tr.writeIndex + 1) % tr.maxSamples,
                !.sampleCount = @ + 1,
                !.cacheValid = FALSE ]

\* Lines 625-626: the copy of the live region.
CopyLive(tr) == SubSeq(tr.samples, 1, effectiveSampleCount(tr))

\* Lines 627-629.
\* Faulty variant: the copy left in buffer order.
SortCopyOmitted(sq) == sq

SortCopy(sq) == SortSeq(sq, LAMBDA a, b : a < b)

\* Lines 632-640: index = int(float64(k-1) * p), clamped, into the sorted copy.
IndexInto(sorted, perMille) ==
    LET k == Len(sorted)
        raw == ((k - 1) * perMille) \div 1000
        index == IF raw < 0 THEN 0 ELSE IF raw >= k THEN k - 1 ELSE raw
    IN  sorted[index + 1]

\* percentile(p) on one buffer state.
PercentileOf(tr, perMille) ==
    IF effectiveSampleCount(tr) = 0 THEN 0
    ELSE IndexInto(SortCopy(CopyLive(tr)), perMille)

\* Lines 615-641 as one call: the tracker it leaves and the value returned.
\* Faulty variant: sort.Slice applied to the live region itself.
PercentileInPlace(tr, perMille) ==
    LET k == effectiveSampleCount(tr)
        sorted == SortCopy(CopyLive(tr))
    IN  [ tracker |-> [ tr EXCEPT !.samples =
                          [ i \in 1 .. tr.maxSamples |->
                              IF i <= k THEN sorted[i] ELSE tr.samples[i] ] ],
          ret |-> PercentileOf(tr, perMille) ]

Percentile(tr, perMille) ==
    [ tracker |-> tr, ret |-> PercentileOf(tr, perMille) ]

\* Lines 592-611 on the two percentiles TailDivergenceRatio read (lines
\* 491-498: ratio 1.0 when p50 = 0, else p99/p50).
\* Faulty variant: the last band without its math.Min cap.
EstimateRFromUncapped(p50, p99) ==
    IF p50 = 0 THEN <<10, 6>>
    ELSE IF p99 < 3 * p50 THEN <<9 * p50 + p99, 6 * p50>>
    ELSE IF p99 < 10 * p50 THEN <<11 * p50 + p99, 7 * p50>>
    ELSE IF p99 < 100 * p50 THEN <<260 * p50 + p99, 90 * p50>>
    ELSE <<300 * p50 + p99, 100 * p50>>

EstimateRFrom(p50, p99) ==
    IF p50 = 0 THEN <<10, 6>>                           \* 1.5 + (1/3)*0.5
    ELSE IF p99 < 3 * p50 THEN <<9 * p50 + p99, 6 * p50>>
    ELSE IF p99 < 10 * p50 THEN <<11 * p50 + p99, 7 * p50>>
    ELSE IF p99 < 100 * p50 THEN <<260 * p50 + p99, 90 * p50>>
    ELSE IF p99 >= 200 * p50 THEN <<5, 1>>
    ELSE <<300 * p50 + p99, 100 * p50>>

\* A buffer state: the fields the percentiles are computed from.
Snapshot(tr) ==
    [ samples |-> tr.samples, maxSamples |-> tr.maxSamples,
      sampleCount |-> tr.sampleCount ]

InCall(p) == tpc[p] \notin { "idle", "done" }

InitTail ==
    /\ g = NoCall
    /\ now = 0
    /\ call = NoCall
    /\ RaceIdle
    /\ t = NewTailDivergenceTracker(MaxSamples)
    /\ mu = Free
    /\ tpc = [ p \in Writers \cup Readers |-> "idle" ]
    /\ tloc = [ p \in Writers \cup Readers |-> NoCall ]
    /\ seen = [ p \in Readers |-> {} ]

\* Record is called; line 471 will block until t.mu is free.
RecordCall(w, latency) ==
    /\ tpc[w] = "idle"
    /\ t.sampleCount < MaxRecords
    /\ tloc' = [ tloc EXCEPT ![w] = [ op |-> "record", latency |-> latency ] ]
    /\ tpc' = [ tpc EXCEPT ![w] = "lock" ]
    /\ UNCHANGED <<govVars, raceVars, t, mu, seen>>

\* Lines 471-478: Lock, the body, the deferred Unlock.
RecordRun(w) ==
    /\ tpc[w] = "lock"
    /\ mu = Free
    /\ t' = RecordBody(t, tloc[w].latency)
    /\ seen' = [ p \in Readers |->
                   IF InCall(p) THEN seen[p] \cup { Snapshot(t') } ELSE seen[p] ]
    /\ tpc' = [ tpc EXCEPT ![w] = "idle" ]
    /\ UNCHANGED <<govVars, raceVars, mu, tloc>>

\* EstimateR is called (line 592); TailDivergenceRatio calls P50 first.
EstimateRCall(p) ==
    /\ tpc[p] = "idle"
    /\ tloc' = [ tloc EXCEPT ![p] =
                   [ op |-> "estimateR", rank |-> 500, sorted |-> <<>>,
                     p50 |-> 0, p99 |-> 0, ret |-> <<0, 1>> ] ]
    /\ seen' = [ seen EXCEPT ![p] = { Snapshot(t) } ]
    /\ tpc' = [ tpc EXCEPT ![p] = "lock" ]
    /\ UNCHANGED <<govVars, raceVars, t, mu>>

\* Line 616.
PercentileLock(p) ==
    /\ tpc[p] = "lock"
    /\ mu = Free
    /\ mu' = p
    /\ tpc' = [ tpc EXCEPT ![p] = "copy" ]
    /\ UNCHANGED <<govVars, raceVars, t, tloc, seen>>

\* Lines 619-626: with no samples return 0 (the deferred Unlock runs),
\* else copy the live region.
PercentileCopy(p) ==
    /\ tpc[p] = "copy"
    /\ IF effectiveSampleCount(t) = 0
       THEN /\ mu' = Free
            /\ tloc' = [ tloc EXCEPT ![p].sorted = <<>>,
                                     ![p].p50 = IF tloc[p].rank = 500 THEN 0 ELSE @,
                                     ![p].p99 = IF tloc[p].rank = 990 THEN 0 ELSE @,
                                     ![p].rank = 990 ]
            /\ tpc' = [ tpc EXCEPT ![p] =
                          IF tloc[p].rank = 500 THEN "lock" ELSE "compute" ]
       ELSE /\ mu' = mu
            /\ tloc' = [ tloc EXCEPT ![p].sorted = CopyLive(t) ]
            /\ tpc' = [ tpc EXCEPT ![p] = "sort" ]
    /\ UNCHANGED <<govVars, raceVars, t, seen>>

\* Lines 627-629: sort.Slice on the copy, t.mu still held.
PercentileSort(p) ==
    /\ tpc[p] = "sort"
    /\ tloc' = [ tloc EXCEPT ![p].sorted = SortCopy(@) ]
    /\ tpc' = [ tpc EXCEPT ![p] = "index" ]
    /\ UNCHANGED <<govVars, raceVars, t, mu, seen>>

\* Lines 632-640 and the deferred Unlock of line 617; P50's return leads to
\* the P99 call (line 492), P99's to the rest of EstimateR.
PercentileReturn(p) ==
    /\ tpc[p] = "index"
    /\ mu' = IF mu = p THEN Free ELSE mu
    /\ LET v == IndexInto(tloc[p].sorted, tloc[p].rank) IN
       tloc' = [ tloc EXCEPT ![p].p50 = IF tloc[p].rank = 500 THEN v ELSE @,
                             ![p].p99 = IF tloc[p].rank = 990 THEN v ELSE @,
                             ![p].sorted = <<>>,
                             ![p].rank = 990 ]
    /\ tpc' = [ tpc EXCEPT ![p] = IF tloc[p].rank = 500 THEN "lock" ELSE "compute" ]
    /\ UNCHANGED <<govVars, raceVars, t, seen>>

\* Lines 494-498 and 595-611.
EstimateRReturn(p) ==
    /\ tpc[p] = "compute"
    /\ tloc' = [ tloc EXCEPT ![p].ret = EstimateRFrom(tloc[p].p50, tloc[p].p99) ]
    /\ tpc' = [ tpc EXCEPT ![p] = "done" ]
    /\ UNCHANGED <<govVars, raceVars, t, mu, seen>>

NextTail ==
    \/ \E w \in Writers :
          \/ \E latency \in Latencies : RecordCall(w, latency)
          \/ RecordRun(w)
    \/ \E p \in Readers :
          \/ EstimateRCall(p)
          \/ PercentileLock(p)
          \/ PercentileCopy(p)
          \/ PercentileSort(p)
          \/ PercentileReturn(p)
          \/ EstimateRReturn(p)

SpecTail == InitTail /\ [][NextTail]_vars

----------------------------------------------------------------------------
(* The autoscaler: ShouldScale, a pure function of its metrics.             *)
(* r and TargetR are in units of 1e-6, Alpha and Beta in units of 1e-2.     *)
(* A float64 that is not a plain integer is kept symbolically:              *)
(*   [kind |-> "sqrt", num, den]   the value sqrt(num / den), den > 0       *)
(*   [kind |-> "int",  num]        the integer num                          *)
(*   [kind |-> "inf"]  +Inf        [kind |-> "nan"]  NaN                    *)

PosInf == [ kind |-> "inf", num |-> 0, den |-> 1 ]
NaN == [ kind |-> "nan", num |-> 0, den |-> 1 ]
SqrtOf(num, den) == [ kind |-> "sqrt", num |-> num, den |-> den ]
Whole(k) == [ kind |-> "int", num |-> k, den |-> 1 ]

\* The ends of int, written small: every count of the model lies strictly
\* between them.
MinInt64 == -(2^30)
MaxInt64 == 2^30

\* int(x) for a float64 x.  Go leaves the conversion of a value that int
\* cannot hold to the implementation: amd64 yields the lowest int for +Inf
\* and NaN, arm64 the highest int for +Inf and 0 for NaN.
IntOf(x) ==
    IF x.kind = "int" THEN { x.num }
    ELSE IF x.kind = "inf" THEN { MinInt64, MaxInt64 }
    ELSE { MinInt64, 0, MaxInt64 }

\* float64(n) > x.
\* Faulty variant of GeqFloat: a count equal to the peak is not beyond it.
GtFloat(n, x) ==
    IF x.kind = "sqrt" THEN n >= 0 /\ n * n * x.den > x.num
    ELSE IF x.kind = "int" THEN n > x.num
    ELSE FALSE

\* float64(n) >= x; false when x is +Inf or NaN.
GeqFloat(n, x) ==
    IF x.kind = "sqrt" THEN n >= 0 /\ n * n * x.den >= x.num
    ELSE IF x.kind = "int" THEN n >= x.num
    ELSE FALSE

\* The largest k >= from with k <= 0.8 * sqrt(num / den),
\* i.e. with 25 * k^2 * den <= 16 * num.
RECURSIVE FloorSearch(_, _, _)
FloorSearch(from, num, den) ==
    IF 25 * (from + 1) * (from + 1) * den > 16 * num
    THEN from
    ELSE FloorSearch(from + 1, num, den)

\* math.Floor(x * 0.8).
FloorOfScaled(x) ==
    IF x.kind = "sqrt" THEN Whole(FloorSearch(0, x.num, x.den)) ELSE x

\* Lines 268-278.
CalculatePeakCapacity(alpha, beta) ==
    IF beta <= 0 THEN PosInf
    ELSE IF alpha >= 100 THEN Whole(0)
    ELSE SqrtOf(100 - alpha, beta)

\* Lines 150-155: the peak as ShouldScale computes it for itself;
\* math.Sqrt of a negative number is NaN.
PeakN(m) ==
    IF m.Beta > 0
    THEN IF 100 - m.Alpha < 0 THEN NaN ELSE SqrtOf(100 - m.Alpha, m.Beta)
    ELSE PosInf

\* int(math.Ceil(n * r / targetR)) and int(math.Floor(n * r / targetR)).
CeilScaled(n, r, targetR) == -((-(n * r)) \div targetR)

\* Faulty variant: rounded to the nearest integer instead of down.
FloorScaledNearest(n, r, targetR) == (2 * n * r + targetR) \div (2 * targetR)

FloorScaled(n, r, targetR) == (n * r) \div targetR

Recommendation(decision, targetN, risk, peakN, inRetrograde, savings) ==
    [ Decision |-> decision, TargetN |-> targetN, RiskLevel |-> risk,
      PeakN |-> peakN, InRetrograde |-> inRetrograde, CostSavings |-> savings ]

\* Lines 172-258: the cases of the switch on m.R, the first that matches.
\* Faulty variant: strict lower bounds.
BandStrict(r) ==
    IF r > 4000000 THEN "emergency"
    ELSE IF r > 3000000 THEN "saturation"
    ELSE IF r > 2500000 THEN "stress"
    ELSE IF r > 1500000 THEN "pocket"
    ELSE "under"

Band(r) ==
    IF r >= 4000000 THEN "emergency"
    ELSE IF r >= 3000000 THEN "saturation"
    ELSE IF r >= 2500000 /\ r < 3000000 THEN "stress"
    ELSE IF r >= 1500000 /\ r < 2500000 THEN "pocket"
    ELSE "under"

\* Lines 146-258.  The set of recommendations the builds of the code can
\* return for m: one, unless an int() conversion is implementation-dependent.
ShouldScale(m) ==
    LET peakN == PeakN(m)
        inRetrograde == GeqFloat(m.CurrentN, peakN)
        targetR == IF m.TargetR = 0 THEN 2000000 ELSE m.TargetR
        band == Band(m.R)
        Rec(decision, targetN, risk) ==
            Recommendation(decision, targetN, risk, peakN, inRetrograde, <<0, 1>>)
    IN  IF band = "emergency"
        THEN { Rec("EMERGENCY_STOP", m.CurrentN, "CRITICAL") }
        ELSE IF band = "saturation"
        THEN IF inRetrograde
             THEN { Rec("SHED_LOAD", targetN, "HIGH") :
                        targetN \in IntOf(FloorOfScaled(peakN)) }
             ELSE { Rec("SHED_LOAD", m.CurrentN, "HIGH") }
        ELSE IF band = "stress"
        THEN IF inRetrograde
             THEN { Rec("SHED_LOAD", m.CurrentN, "MEDIUM") }
             ELSE LET targetN == CeilScaled(m.CurrentN, m.R, targetR) IN
                  { Rec("SCALE_UP",
                        IF targetN > maxSafeN THEN maxSafeN ELSE targetN,
                        "MEDIUM") :
                        maxSafeN \in IntOf(FloorOfScaled(peakN)) }
        ELSE IF band = "pocket"
        THEN { Rec("MAINTAIN", m.CurrentN, "LOW") }
        ELSE LET floored == FloorScaled(m.CurrentN, m.R, targetR)
                 targetN == IF floored < 1 THEN 1 ELSE floored
             IN  { Recommendation("SCALE_DOWN", targetN, "LOW", peakN, inRetrograde,
                                  <<(m.CurrentN - targetN) * 100, m.CurrentN>>) }

\* Lines 307-315.
IsRetrograde(currentN, alpha, beta) ==
    LET peakN == CalculatePeakCapacity(alpha, beta) IN
    IF peakN.kind = "inf" THEN FALSE ELSE GeqFloat(currentN, peakN)

\* The metrics ShouldScale is applied to.
ScaleRs ==
    { 1200000, 1499999, 1500000, 2499999, 2500000, 2700000,
      2999999, 3000000, 3200000, 3999999, 4000000 }

ScaleNs == { 0, 1, 3, 4, 5, 10, 50 }

\* <<Alpha, Beta>>
ScaleCoefficients ==
    { <<5, 1>>,        \* peak 9.75
      <<30, 5>>,       \* peak 3.74
      <<0, 1>>,        \* peak exactly 10
      <<100, 1>>,      \* alpha = 1: peak 0
      <<150, 5>>,      \* alpha > 1
      <<5, 0>>,        \* beta = 0: no peak
      <<5, -1>> }      \* beta < 0: no peak

ScaleTargetRs == { 0, 1000000, 2000000, 3000000 }

ScaleInputs ==
    { [ R |-> r, CurrentN |-> n, Alpha |-> c[1], Beta |-> c[2], TargetR |-> tr ] :
        r \in ScaleRs, n \in ScaleNs, c \in ScaleCoefficients, tr \in ScaleTargetRs }

InitScale ==
    /\ g = NoCall
    /\ now = 0
    /\ call = NoCall
    /\ RaceIdle
    /\ TailIdle

ShouldScaleCall(m) ==
    /\ \E rec \in ShouldScale(m) :
          call' = [ op |-> "shouldScale", m |-> m, rec |-> rec ]
    /\ UNCHANGED <<g, now, raceVars, tailVars>>

IsRetrogradeCall(currentN, alpha, beta) ==
    /\ call' = [ op |-> "isRetrograde", currentN |-> currentN, alpha |-> alpha,
                 beta |-> beta, ret |-> IsRetrograde(currentN, alpha, beta) ]
    /\ UNCHANGED <<g, now, raceVars, tailVars>>

NextScale ==
    \/ \E m \in ScaleInputs : ShouldScaleCall(m)
    \/ \E n \in ScaleNs, c \in ScaleCoefficients : IsRetrogradeCall(n, c[1], c[2])

SpecScale == InitScale /\ [][NextScale]_vars

----------------------------------------------------------------------------
(* The tracker used by one caller: Record, percentile and EstimateR run to  *)
(* completion one after the other on a ring of RingSize slots.              *)

RingLatencies == { 1, 3, 10, 100, 250 }

\* Per mille: the minimum, P50, P99, P99.9 and the maximum.
Ranks == { 0, 500, 990, 999, 1000 }

\* The latencies recorded so far, oldest first.
Recorded == IF call.op = "none" THEN <<>> ELSE call.recorded

InitRing ==
    /\ g = NoCall
    /\ now = 0
    /\ call = NoCall
    /\ RaceIdle
    /\ t = NewTailDivergenceTracker(RingSize)
    /\ mu = Free
    /\ tpc = <<>>
    /\ tloc = <<>>
    /\ seen = <<>>

\* Lines 470-478.
Record(latency) ==
    /\ Len(Recorded) < MaxWrites
    /\ t' = RecordBody(t, latency)
    /\ call' = [ op |-> "record", latency |-> latency,
                 recorded |-> Append(Recorded, latency) ]
    /\ UNCHANGED <<g, now, raceVars, mu, tpc, tloc, seen>>

\* Lines 615-641.
PercentileCall(perMille) ==
    /\ LET res == Percentile(t, perMille) IN
        /\ t' = res.tracker
        /\ call' = [ op |-> "percentile", rank |-> perMille, ret |-> res.ret,
                     pre |-> t, recorded |-> Recorded ]
    /\ UNCHANGED <<g, now, raceVars, mu, tpc, tloc, seen>>

\* Lines 490-499 and 592-612: EstimateR with nothing recorded in between.
EstimateR ==
    /\ LET p50 == Percentile(t, 500)
           p99 == Percentile(p50.tracker, 990)
       IN  /\ t' = p99.tracker
           /\ call' = [ op |-> "estimateR", p50 |-> p50.ret, p99 |-> p99.ret,
                        ret |-> EstimateRFrom(p50.ret, p99.ret),
                        recorded |-> Recorded ]
    /\ UNCHANGED <<g, now, raceVars, mu, tpc, tloc, seen>>

NextRing ==
    \/ \E latency \in RingLatencies : Record(latency)
    \/ \E perMille \in Ranks : PercentileCall(perMille)
    \/ EstimateR

SpecRing == InitRing /\ [][NextRing]_vars

----------------------------------------------------------------------------
(* Properties of the sequential Governor, stated on the call just completed *)

Evaluated == call.op = "evaluate"

\* The two blocking conditions of the deployment gate, as the specification
\* words them.
GateBlocks(m) ==
    \/ m.DeltaCriticalCore = 0 /\ m.DeltaComplexity > 0
    \/ m.DeltaCriticalCore > 0
        /\ m.DeltaComplexity * 10000 > 46692 * m.DeltaCriticalCore

SinceThrottleEntry == call.at - call.pre.throttleEnteredAt

\* The zone of an r value, as the specification's table gives it.
ZoneOf(r) ==
    IF r >= 3000000 THEN "THROTTLE"
    ELSE IF r >= 2900000 THEN "PACING"
    ELSE IF r >= 2800000 THEN "WARNING"
    ELSE "STABLE"

\* C1: in throttle mode, an evaluation that passes the deployment gate, is made
\* at least 60 s after the throttle entry and has r < 2.0 clears throttle mode
\* and returns the ordinary zone action for that r (Stable for r = 1.9).
C1_ExitReturnsZoneAction ==
    ( /\ Evaluated
      /\ call.pre.inThrottleMode
      /\ ~GateBlocks(call.metrics)
      /\ SinceThrottleEntry >= 60
      /\ call.r < 2000000 )
    => ( /\ ~g.inThrottleMode
         /\ call.action.Type = ZoneOf(call.r) )

\* C2: in throttle mode, an evaluation that passes the deployment gate returns
\* Throttle unless both exit conditions hold (60 s elapsed and r < 2.0).
C2_ThrottleUnlessBothExitConditions ==
    ( /\ Evaluated
      /\ call.pre.inThrottleMode
      /\ ~GateBlocks(call.metrics)
      /\ ~(SinceThrottleEntry >= 60 /\ call.r < 2000000) )
    => call.action.Type = "THROTTLE"

\* C2 witness: r = 2.7 (below r_sat) within 60 s of the entry, Throttle returned.
C2_Witness ==
    /\ Evaluated
    /\ call.pre.inThrottleMode
    /\ ~GateBlocks(call.metrics)
    /\ SinceThrottleEntry < 60
    /\ call.r = 2700000
    /\ call.action.Type = "THROTTLE"

\* C3 as stated: once throttle mode is entered, every evaluation within the next
\* 60 s whose r is at least 2.0 returns Throttle, whatever the metrics record.
C3_AnyMetricsWithinDwellThrottle ==
    ( /\ Evaluated
      /\ call.pre.inThrottleMode
      /\ SinceThrottleEntry < 60
      /\ call.r >= 2000000 )
    => call.action.Type = "THROTTLE"

\* C3 amended: once throttle mode is entered, every evaluation within the next
\* 60 s whose r is at least 2.0 returns Throttle if its metrics pass the
\* deployment gate, and BlockDeploy if the gate blocks them.
C3_WithinDwellThrottleOrBlock ==
    ( /\ Evaluated
      /\ call.pre.inThrottleMode
      /\ SinceThrottleEntry < 60
      /\ call.r >= 2000000 )
    => call.action.Type =
         IF GateBlocks(call.metrics) THEN "BLOCK_DEPLOY" ELSE "THROTTLE"

\* C3 witness: 30 s after the entry, r = 2.0 exactly, gate passed, Throttle.
C3_Witness ==
    /\ Evaluated
    /\ call.pre.inThrottleMode
    /\ SinceThrottleEntry > 0
    /\ SinceThrottleEntry < 60
    /\ call.r = 2000000
    /\ ~GateBlocks(call.metrics)
    /\ call.action.Type = "THROTTLE"

\* C4: metrics with DeltaCriticalCore = 0 and DeltaComplexity > 0 return
\* BlockDeploy in every Governor state.
C4_PureDebtBlocked ==
    ( /\ Evaluated
      /\ call.metrics.DeltaCriticalCore = 0
      /\ call.metrics.DeltaComplexity > 0 )
    => call.action.Type = "BLOCK_DEPLOY"

\* C4 witness: pure debt blocked while the Governor is in throttle mode and r is
\* in the stable zone.
C4_Witness ==
    /\ Evaluated
    /\ call.metrics.DeltaCriticalCore = 0
    /\ call.metrics.DeltaComplexity > 0
    /\ call.pre.inThrottleMode
    /\ call.r < 2800000
    /\ call.action.Type = "BLOCK_DEPLOY"

\* C5: metrics with DeltaCriticalCore > 0 and DeltaComplexity/DeltaCriticalCore
\* above delta = 4.6692 return BlockDeploy.
C5_RatioAboveDeltaBlocked ==
    ( /\ Evaluated
      /\ call.metrics.DeltaCriticalCore > 0
      /\ call.metrics.DeltaComplexity * 10000
            > 46692 * call.metrics.DeltaCriticalCore )
    => call.action.Type = "BLOCK_DEPLOY"

\* C5 witness: ratio 4.6693, just above delta, is blocked.
C5_Witness ==
    /\ Evaluated
    /\ call.metrics.DeltaCriticalCore = 10000
    /\ call.metrics.DeltaComplexity = 46693
    /\ call.action.Type = "BLOCK_DEPLOY"
    /\ g.deployBlocked = call.pre.deployBlocked + 1

\* C6: when neither blocking condition holds (DeltaComplexity = 0, or
\* DeltaCriticalCore > 0 with ratio <= delta) the action is never BlockDeploy,
\* no blocked deploy is counted, and the action is the runtime one: Throttle
\* when r >= 3.0 or throttle mode is on, else the zone of r.
C6_GatePassedNeverBlocks ==
    ( /\ Evaluated
      /\ \/ call.metrics.DeltaComplexity = 0
         \/ /\ call.metrics.DeltaCriticalCore > 0
            /\ call.metrics.DeltaComplexity * 10000
                  <= 46692 * call.metrics.DeltaCriticalCore )
    => ( /\ call.action.Type # "BLOCK_DEPLOY"
         /\ g.deployBlocked = call.pre.deployBlocked
         /\ call.action.Type \in {"STABLE", "WARNING", "PACING", "THROTTLE"}
         /\ (call.r >= 3000000 => call.action.Type = "THROTTLE")
         /\ (~call.pre.inThrottleMode => call.action.Type = ZoneOf(call.r)) )

\* C6 witness: a deployment with ratio exactly delta goes through to a zone action.
C6_Witness ==
    /\ Evaluated
    /\ call.metrics.DeltaCriticalCore = 10000
    /\ call.metrics.DeltaComplexity = 46692
    /\ call.action.Type = "WARNING"

----------------------------------------------------------------------------
(* Properties of concurrent use *)

RacersDone == \A p \in Racers : gpc[p] = "done"

RaceOrders == { f \in [ Racers -> Racers ] : \A a, b \in Racers : f[a] = f[b] => a = b }

\* Running the calls one at a time in the given order from the Governor g0
\* gives each caller the Action it got and ends in the Governor g.
RECURSIVE LinearizedBy(_, _, _)
LinearizedBy(order, i, gv) ==
    IF i > NumRacers THEN gv = g
    ELSE LET p == order[i]
             res == CheckStructuralIntegrity(gv, gloc[p].metrics, gloc[p].at)
         IN  res.action = gloc[p].action /\ LinearizedBy(order, i + 1, res.gov)

\* C8: concurrent evaluations on one Governor are atomic and totally ordered:
\* when all the calls have returned, the Governor's state and the Actions
\* returned are those of some one-at-a-time execution of the same calls.
C8_EvaluationsLinearizable ==
    RacersDone => \E order \in RaceOrders : LinearizedBy(order, 1, g0)

FracEq(a, b) == a[1] * b[2] = b[1] * a[2]

\* C9: an EstimateR call returns the value computed from one single buffer
\* state among those that existed between its start and its return (each a
\* prefix of the Record calls holding every Record completed before the
\* call): the value EstimateR gives for the P50 and the P99 of that one state.
C9_EstimateRFromOneSnapshot ==
    \A p \in Readers :
        tpc[p] = "done" =>
            \E s \in seen[p] :
                FracEq(tloc[p].ret,
                       EstimateRFrom(PercentileOf(s, 500), PercentileOf(s, 990)))

\* C10: a percentile read sorts its copy after releasing t.mu, so no Record
\* waits for the lock while a reader that holds it is sorting.
C10_RecordNeverWaitsForSort ==
    \A p \in Readers, w \in Writers :
        ~(tpc[p] = "sort" /\ mu = p /\ tpc[w] = "lock")

----------------------------------------------------------------------------
(* Properties of the history and of recovery *)

\* The design bounds the history by a fixed cap (4096 in its text); the model
\* scales the cap down to HistoryCap entries.
HistoryCap == 4

Recovered == call.op = "applyRecovery"

\* r before and after the i-th pulse of the recovery call just completed.
BeforePulse(i) ==
    IF i = 1 THEN call.pre.rdynamics.CurrentR
    ELSE g.rdynamics.History[Len(call.pre.rdynamics.History) + i - 1]

AfterPulse(i) ==
    g.rdynamics.History[Len(call.pre.rdynamics.History) + i]

\* C11: the Governor's r history never holds more than a fixed cap of
\* entries, however many evaluations and recovery pulses are performed.
C11_HistoryBounded ==
    Len(g.rdynamics.History) <= HistoryCap

\* C12: the recovery loop terminates: it applies at most 20 pulses, each one
\* only while r >= 3.0, stops early only when r < 3.0, and returns the
\* terminal r with the number of pulses applied, which is 0 (and nothing is
\* changed) when r was already below 3.0.
C12_RecoveryLoopTerminates ==
    Recovered =>
        /\ call.iterations \in 0 .. 20
        /\ call.finalR = g.rdynamics.CurrentR
        /\ Len(g.rdynamics.History)
              = Len(call.pre.rdynamics.History) + call.iterations
        /\ g.rdynamics.RecoveryEvents
              = call.pre.rdynamics.RecoveryEvents + call.iterations
        /\ \A i \in 1 .. call.iterations : BeforePulse(i) >= 3000000
        /\ call.iterations < 20 => call.finalR < 3000000
        /\ call.pre.rdynamics.CurrentR < 3000000 =>
              call.iterations = 0 /\ g.rdynamics = call.pre.rdynamics

C12_Witness ==
    /\ Recovered
    /\ call.iterations = 20
    /\ call.finalR >= 3000000

\* C13: Governor.ApplyRecovery returns true exactly when r is below 3.0
\* after at most 20 pulses, and false exactly when the cap of 20 pulses was
\* reached with r still at or above 3.0.
C13_RecoveryResult ==
    Recovered =>
        /\ call.iterations <= 20
        /\ call.ok <=> g.rdynamics.CurrentR < 3000000
        /\ ~call.ok <=> (call.iterations = 20 /\ g.rdynamics.CurrentR >= 3000000)

\* A recovery that succeeds after an earlier one gave up at the cap.
C13_Witness ==
    /\ Recovered
    /\ call.ok
    /\ call.iterations > 0
    /\ call.pre.rdynamics.RecoveryEvents = 20
    /\ call.pre.rdynamics.CurrentR >= 3000000

\* C14: every single recovery pulse moves r by an amount between -1/delta
\* and 0 (1/delta = 0.214169 in units of 1e-6).
C14_PulseWithinCap ==
    Recovered =>
        \A i \in 1 .. call.iterations :
            /\ AfterPulse(i) <= BeforePulse(i)
            /\ BeforePulse(i) - AfterPulse(i) <= 214169

\* A call whose first pulse is cut down to exactly 1/delta and whose last
\* pulse is the move off the 3.0 boundary.
C14_Witness ==
    /\ Recovered
    /\ call.iterations > 1
    /\ BeforePulse(1) - AfterPulse(1) = 214169
    /\ AfterPulse(call.iterations) = 2997000

ActionTypes ==
    { "STABLE", "WARNING", "PACING", "THROTTLE", "BLOCK_DEPLOY", "RESTART" }

\* C15: evaluate never fails: in every Governor state and for every metrics
\* record it returns an Action of one of the six types, and a record with
\* ImmutableOpsVerified = 0 and SupervisedProcesses = 0 is evaluated with both
\* denominators taken as 1.
C15_EvaluateNeverFails ==
    /\ \A m \in MetricsInputs :
          CheckStructuralIntegrity(g, m, now).action.Type \in ActionTypes
    /\ Evaluated =>
          /\ call.action.Type \in ActionTypes
          /\ (call.metrics.ImmutableOpsVerified = 0
                  /\ call.metrics.SupervisedProcesses = 0) =>
                call.r = 1000000
                          + call.metrics.MutableSharedState * 1000000
                          + call.metrics.UnsupervisedProcesses * 1000000
                          + call.metrics.ScalingRatio * 46692

C15_Witness ==
    /\ Evaluated
    /\ call.metrics.ImmutableOpsVerified = 0
    /\ call.metrics.SupervisedProcesses = 0
    /\ call.metrics.UnsupervisedProcesses = 1
    /\ call.r = 2000000
    /\ call.action.Type = "STABLE"

\* How many of the evaluations made so far returned the given action type.
ReturnedCount(type) ==
    Cardinality({ i \in DOMAIN TypesReturned : TypesReturned[i] = type })

\* C29: the statistics read after any sequence of calls report as warnings
\* the number of evaluations that returned Warning and as blocked deploys
\* the number that returned BlockDeploy; both are 0 on a new Governor.
C29_CountersMatchActions ==
    /\ call.op = "none" =>
          /\ GetStatistics(g).warnings_issued = 0
          /\ GetStatistics(g).deploys_blocked = 0
    /\ call.op # "none" =>
          /\ call.stats.warnings_issued = ReturnedCount("WARNING")
          /\ call.stats.deploys_blocked = ReturnedCount("BLOCK_DEPLOY")

\* One Warning and one BlockDeploy so far.
C29_Witness ==
    /\ Evaluated
    /\ Len(call.types) = 2
    /\ ReturnedCount("WARNING") = 1
    /\ ReturnedCount("BLOCK_DEPLOY") = 1
    /\ call.stats.warnings_issued = 1
    /\ call.stats.deploys_blocked = 1

\* The r-model after the first i pulses of the recovery call just completed.
AfterPulses(i) ==
    RecoveryLoop(call.pre.rdynamics, call.metrics, 0, i).rd

\* C30: the saturation flag equals (current r >= 3.0) after construction,
\* after every evaluation and after every recovery pulse.
C30_SaturationFlag ==
    /\ g.rdynamics.InSaturationZone <=> g.rdynamics.CurrentR >= 3000000
    /\ Recovered =>
          \A i \in 0 .. call.iterations :
              AfterPulses(i).InSaturationZone <=> AfterPulses(i).CurrentR >= 3000000

\* An evaluation at r = 3.0 exactly.
C30_Witness ==
    /\ Evaluated
    /\ call.r = 3000000
    /\ g.rdynamics.CurrentR = 3000000
    /\ g.rdynamics.InSaturationZone

----------------------------------------------------------------------------
(* Properties of the tracker used by one caller *)

Ascending(sq) == SortSeq(sq, LAMBDA a, b : a < b)

\* The most recent min(total, RingSize) recorded latencies, oldest first.
RecentWindow ==
    LET total == Len(Recorded)
        k == IF total < RingSize THEN total ELSE RingSize
    IN  SubSeq(Recorded, total - k + 1, total)

\* C25: the live region holds exactly the most recent min(total, M)
\* recorded samples, the older ones having been overwritten, and the write
\* index is total mod M.
C25_LiveRegionIsRecent ==
    /\ t.sampleCount = Len(Recorded)
    /\ t.writeIndex = Len(Recorded) % RingSize
    /\ Len(CopyLive(t)) = Len(RecentWindow)
    /\ Ascending(CopyLive(t)) = Ascending(RecentWindow)

\* More records than slots, and the first latency recorded is gone.
C25_Witness ==
    /\ Len(Recorded) > RingSize
    /\ \A i \in 1 .. RingSize : t.samples[i] # Recorded[1]

\* C26: percentile(p) returns the element at index floor((k - 1) * p),
\* clamped to [0, k - 1], of the ascending sort of the k-element live
\* region, 0 when k = 0, and leaves the buffer as it was.
C26_PercentileIndex ==
    call.op = "percentile" =>
        LET k == Len(RecentWindow)
            raw == ((k - 1) * call.rank) \div 1000
            index == IF raw < 0 THEN 0 ELSE IF raw > k - 1 THEN k - 1 ELSE raw
        IN  /\ call.ret = IF k = 0 THEN 0 ELSE Ascending(RecentWindow)[index + 1]
            /\ t = call.pre

\* The median of a full buffer that is not in ascending order.
C26_Witness ==
    /\ call.op = "percentile"
    /\ call.rank = 500
    /\ Len(Recorded) > RingSize
    /\ CopyLive(call.pre) # Ascending(CopyLive(call.pre))
    /\ call.ret # call.pre.samples[1]

\* C27: on one buffer state, p1 < p2 gives percentile(p1) <= percentile(p2).
C27_PercentileMonotone ==
    \A p1 \in Ranks, p2 \in Ranks :
        p1 < p2 => Percentile(t, p1).ret <= Percentile(t, p2).ret

\* A full buffer, not in ascending order, whose percentiles differ.
C27_Witness ==
    /\ t.sampleCount >= RingSize
    /\ t.samples # Ascending(t.samples)
    /\ Percentile(t, 0).ret < Percentile(t, 500).ret
    /\ Percentile(t, 500).ret < Percentile(t, 990).ret

\* The pairs <<P50, P99>> a tracker can hand to EstimateR.
RatioPairs ==
    { <<0, 0>>, <<1, 150>>, <<1, 199>>, <<1, 200>> } \cup
    { <<a, b>> \in RingLatencies \X RingLatencies : a <= b }

\* ratio(x) <= ratio(y), the ratio being 1 when P50 = 0.
RatioLeq(x, y) ==
    LET xn == IF x[1] = 0 THEN 1 ELSE x[2]
        xd == IF x[1] = 0 THEN 1 ELSE x[1]
        yn == IF y[1] = 0 THEN 1 ELSE y[2]
        yd == IF y[1] = 0 THEN 1 ELSE y[1]
    IN  xn * yd <= yn * xd

FracLeq(a, b) == a[1] * b[2] <= b[1] * a[2]

----------------------------------------------------------------------------
(* Properties of the autoscaler, stated on the ShouldScale call just made *)

Scaled == call.op = "shouldScale"

\* N >= N_peak with N_peak = PeakCapacity(alpha, beta).
AtOrBeyondPeak(m) ==
    GeqFloat(m.CurrentN, CalculatePeakCapacity(m.Alpha, m.Beta))

\* C16: ShouldScale never returns ScaleUp when N >= N_peak, where N_peak is
\* PeakCapacity(alpha, beta).
C16_NoScaleUpAtOrBeyondPeak ==
    (Scaled /\ AtOrBeyondPeak(call.m)) => call.rec.Decision # "SCALE_UP"

\* C17: the decision and the risk level are given by the r band, lower
\* bounds inclusive, and the recommendation's retrograde flag, and TargetN is
\* the current N for EmergencyStop, Maintain, ShedLoad in saturation without
\* the flag and ShedLoad under stress with the flag.
C17_DecisionTable ==
    Scaled =>
        LET r == call.m.R
            n == call.m.CurrentN
            rec == call.rec
        IN  /\ r >= 4000000 =>
                  /\ rec.Decision = "EMERGENCY_STOP"
                  /\ rec.RiskLevel = "CRITICAL"
                  /\ rec.TargetN = n
            /\ (3000000 <= r /\ r < 4000000) =>
                  /\ rec.Decision = "SHED_LOAD"
                  /\ rec.RiskLevel = "HIGH"
                  /\ ~rec.InRetrograde => rec.TargetN = n
            /\ (2500000 <= r /\ r < 3000000) =>
                  /\ rec.RiskLevel = "MEDIUM"
                  /\ rec.InRetrograde => (rec.Decision = "SHED_LOAD" /\ rec.TargetN = n)
                  /\ ~rec.InRetrograde => rec.Decision = "SCALE_UP"
            /\ (1500000 <= r /\ r < 2500000) =>
                  /\ rec.Decision = "MAINTAIN"
                  /\ rec.RiskLevel = "LOW"
                  /\ rec.TargetN = n
            /\ r < 1500000 =>
                  /\ rec.Decision = "SCALE_DOWN"
                  /\ rec.RiskLevel = "LOW"

\* r exactly on the 2.5 boundary, at the peak exactly (N = 10 = N_peak).
C17_Witness ==
    /\ Scaled
    /\ call.m.R = 2500000
    /\ call.m.CurrentN = 10
    /\ call.m.Alpha = 0
    /\ call.m.Beta = 1
    /\ call.rec.InRetrograde
    /\ call.rec.Decision = "SHED_LOAD"
    /\ call.rec.RiskLevel = "MEDIUM"
    /\ call.rec.TargetN = 10

\* floor(0.8 * N_peak) for a finite N_peak = PeakCapacity(alpha, beta).
FloorOfSafePeak(m) ==
    FloorOfScaled(CalculatePeakCapacity(m.Alpha, m.Beta)).num

\* C18: when 3.0 <= r < 4.0 and N >= N_peak the recommendation is ShedLoad
\* with risk HIGH and TargetN = floor(0.8 * N_peak).
C18_SaturationRetrogradeTarget ==
    (Scaled /\ 3000000 <= call.m.R /\ call.m.R < 4000000 /\ AtOrBeyondPeak(call.m)) =>
        /\ call.rec.Decision = "SHED_LOAD"
        /\ call.rec.RiskLevel = "HIGH"
        /\ call.rec.TargetN = FloorOfSafePeak(call.m)

\* min(ceil(N * r / targetR), floor(0.8 * N_peak)), targetR being 2.0 when
\* not supplied; the minimum with an infinite N_peak is its first argument.
ScaleUpTarget(m) ==
    LET targetR == IF m.TargetR = 0 THEN 2000000 ELSE m.TargetR
        wanted == -((-(m.CurrentN * m.R)) \div targetR)
        peak == CalculatePeakCapacity(m.Alpha, m.Beta)
    IN  IF peak.kind = "inf" THEN wanted
        ELSE IF FloorOfScaled(peak).num < wanted THEN FloorOfScaled(peak).num
        ELSE wanted

\* C19: when 2.5 <= r < 3.0 and N < N_peak the recommendation is ScaleUp
\* with TargetN = min(ceil(N * r / targetR), floor(0.8 * N_peak)).
C19_ScaleUpTarget ==
    (Scaled /\ 2500000 <= call.m.R /\ call.m.R < 3000000 /\ ~AtOrBeyondPeak(call.m)) =>
        /\ call.rec.Decision = "SCALE_UP"
        /\ call.rec.TargetN = ScaleUpTarget(call.m)

\* C20: whenever ShouldScale returns ScaleUp, TargetN is strictly greater
\* than the current N.
C20_ScaleUpGrows ==
    (Scaled /\ call.rec.Decision = "SCALE_UP") => call.rec.TargetN > call.m.CurrentN

\* C21: when r < 1.5 the recommendation is ScaleDown with
\* TargetN = max(1, floor(N * r / targetR)), targetR being 2.0 when not
\* supplied, and CostSavings = (N - TargetN) / N * 100.
C21_ScaleDownTarget ==
    (Scaled /\ call.m.R < 1500000) =>
        LET n == call.m.CurrentN
            targetR == IF call.m.TargetR = 0 THEN 2000000 ELSE call.m.TargetR
            floored == (n * call.m.R) \div targetR
        IN  /\ call.rec.Decision = "SCALE_DOWN"
            /\ call.rec.TargetN = IF floored > 1 THEN floored ELSE 1
            /\ call.rec.CostSavings = <<(n - call.rec.TargetN) * 100, n>>

\* The test's case: 10 nodes at r = 1.2 with target 2.0 go down to 6, 40 %.
C21_Witness ==
    /\ Scaled
    /\ call.m.R = 1200000
    /\ call.m.CurrentN = 10
    /\ call.m.TargetR = 2000000
    /\ call.rec.Decision = "SCALE_DOWN"
    /\ call.rec.TargetN = 6
    /\ call.rec.CostSavings = <<400, 10>>

\* C22: whenever ShouldScale returns ScaleDown, TargetN is strictly below
\* the current N and CostSavings is strictly positive.
C22_ScaleDownShrinks ==
    (Scaled /\ call.rec.Decision = "SCALE_DOWN") =>
        /\ call.rec.TargetN < call.m.CurrentN
        /\ call.rec.CostSavings[2] > 0
        /\ call.rec.CostSavings[1] > 0

\* C23: ShouldScale returns a well-formed recommendation for every finite
\* input: one of the five decisions, one of the four risk levels, and a
\* TargetN and a CostSavings that are defined finite numbers.
C23_WellFormed ==
    Scaled =>
        /\ call.rec.Decision \in
              { "SCALE_DOWN", "MAINTAIN", "SCALE_UP", "SHED_LOAD", "EMERGENCY_STOP" }
        /\ call.rec.RiskLevel \in { "LOW", "MEDIUM", "HIGH", "CRITICAL" }
        /\ MinInt64 < call.rec.TargetN
        /\ call.rec.TargetN < MaxInt64
        /\ call.rec.CostSavings[2] # 0

RetrogradeAsked == call.op = "isRetrograde"

\* C24: IsRetrograde(N, alpha, beta) is true exactly when beta > 0 and
\* N >= PeakCapacity(alpha, beta): N >= 0 when alpha >= 1, and
\* N >= sqrt((1 - alpha) / beta), i.e. N^2 * beta >= 1 - alpha, otherwise.
C24_IsRetrograde ==
    RetrogradeAsked =>
        (call.ret <=>
            /\ call.beta > 0
            /\ call.currentN >= 0
            /\ call.alpha < 100 =>
                  call.currentN * call.currentN * call.beta >= 100 - call.alpha)

\* N exactly at the peak: alpha = 0, beta = 0.01, N = 10.
C24_Witness ==
    /\ RetrogradeAsked
    /\ call.currentN = 10
    /\ call.alpha = 0
    /\ call.beta = 1
    /\ call.ret

----------------------------------------------------------------------------
(* Properties of the r-model and of the Governor's bookkeeping.             *)

\* Amounts by which one field of the evaluated metrics is raised.
Raises == { 0, 1, 7, 100 }

\* C31: CalculateSystemDNA is non-decreasing in MutableSharedState, in
\* UnsupervisedProcesses and in ScalingRatio, each taken with the other
\* fields held fixed: raising one of them never lowers r.
C31_DNAMonotone ==
    Evaluated =>
        \A d \in Raises :
            /\ CalculateSystemDNA(
                   [call.metrics EXCEPT !.MutableSharedState = @ + d]) >= call.r
            /\ CalculateSystemDNA(
                   [call.metrics EXCEPT !.UnsupervisedProcesses = @ + d]) >= call.r
            /\ CalculateSystemDNA(
                   [call.metrics EXCEPT !.ScalingRatio = @ + d]) >= call.r

\* r = 3.220608 was evaluated and raising any one of the three fields by one
\* gives a strictly larger r.
C31_Witness ==
    /\ Evaluated
    /\ call.r = 3220608
    /\ CalculateSystemDNA(
           [call.metrics EXCEPT !.MutableSharedState = @ + 1]) > call.r
    /\ CalculateSystemDNA(
           [call.metrics EXCEPT !.UnsupervisedProcesses = @ + 1]) > call.r
    /\ CalculateSystemDNA(
           [call.metrics EXCEPT !.ScalingRatio = @ + 1]) > call.r

\* C35: the metrics carried by the Action an evaluation returns have
\* EstimatedCoupling equal to the r computed in that evaluation.
C35_SnapshotCarriesR ==
    Evaluated => call.action.Metrics.EstimatedCoupling = call.r

\* The exit condition of throttle mode held for the evaluation just made and
\* the deployment gate let it through.
ExitTaken ==
    /\ call.pre.inThrottleMode
    /\ ~GateBlocks(call.metrics)
    /\ SinceThrottleEntry >= 60
    /\ call.r < 2000000

\* C36: after an evaluation with r < 3.0 that started outside throttle mode
\* or that satisfied the exit condition the Governor is not in throttle mode,
\* and the entry time changes only when throttle mode goes from off to on.
C36_ThrottleOnlyAtSaturation ==
    Evaluated =>
        /\ (call.r < 3000000 /\ (~call.pre.inThrottleMode \/ ExitTaken))
               => ~g.inThrottleMode
        /\ g.throttleEnteredAt # call.pre.throttleEnteredAt
               => (~call.pre.inThrottleMode /\ g.inThrottleMode)

\* C37: an evaluation that returns BlockDeploy leaves current r, the history,
\* the saturation flag, the last-check time and throttle mode as they were;
\* only the blocked-deploy counter moves.
C37_BlockDeployFrame ==
    (Evaluated /\ call.action.Type = "BLOCK_DEPLOY") =>
        /\ g.rdynamics = call.pre.rdynamics
        /\ g.lastCheck = call.pre.lastCheck
        /\ g.inThrottleMode = call.pre.inThrottleMode
        /\ g.throttleEnteredAt = call.pre.throttleEnteredAt
        /\ g.warnings = call.pre.warnings
        /\ g.throttleEvents = call.pre.throttleEvents
        /\ g.deployBlocked = call.pre.deployBlocked + 1

\* Off-to-on switches of throttle mode made by the call just completed: an
\* evaluation that ends in throttle mode having started outside it or having
\* taken the exit; a recovery makes none.
SwitchesOn ==
    IF Evaluated /\ g.inThrottleMode /\ (~call.pre.inThrottleMode \/ ExitTaken)
    THEN 1 ELSE 0

\* C38: the throttles statistic counts the off-to-on switches of throttle
\* mode: 0 on a new Governor, and each evaluate or applyRecovery call raises
\* it by the number of switches that call made.
C38_ThrottlesCountSwitches ==
    /\ call.op = "none" => GetStatistics(g).throttles_applied = 0
    /\ call.op # "none" =>
          call.stats.throttles_applied
              = GetStatistics(call.pre).throttles_applied + SwitchesOn

----------------------------------------------------------------------------
(* The stateless checkers: the deployment constraint of runtime.go and the  *)
(* USL fitter.  A behaviour is one call on arguments drawn from the input  *)
(* sets; the step leaves the arguments and the result in `call`.            *)

\* runtime.go lines 517-525: the constraint NewCriticalityConstraint builds.
\* MaxRatio is CriticalityScalingRatio = 1/delta; it is kept as the pair
\* <<1, delta>> (delta in units of 1e-4, so the value is 10000/46692).
NewCriticalityConstraint(deltaCritical, deltaComplex) ==
    [ DeltaCriticalCore |-> deltaCritical,
      DeltaComplexity   |-> deltaComplex,
      MaxRatio          |-> <<10000, FeigenbaumDelta>>,
      CurrentCouplingR  |-> 0,
      TargetCouplingR   |-> SaturationThreshold ]

\* runtime.go lines 529-551: Validate.  The result is the kind of error:
\* "nil", "zero critical core" (line 531) or "violation" (line 536).
\* ratio > MaxRatio is decided by cross-multiplication, with the direction
\* turned when DeltaCriticalCore is negative.
Validate(c) ==
    IF c.DeltaCriticalCore = 0 THEN "zero critical core"
    ELSE IF c.DeltaCriticalCore > 0
    THEN IF c.DeltaComplexity * c.MaxRatio[2] > c.MaxRatio[1] * c.DeltaCriticalCore
         THEN "violation" ELSE "nil"
    ELSE IF c.DeltaComplexity * c.MaxRatio[2] < c.MaxRatio[1] * c.DeltaCriticalCore
         THEN "violation" ELSE "nil"

\* Arguments handed to the constraint: core and complexity deltas that put
\* the ratio below 1/delta, exactly at it (2500/11673), between 1/delta and
\* delta, exactly at delta (11673/2500) and above it.
ValidateCores == { -50, 0, 50, 2500, 11673 }
ValidateComplexities == { -10, 0, 100, 470, 2500, 2501, 11673, 11674 }

\* A quotient num/den of two integers, den possibly 0, as a pair with a
\* non-negative second component: <<n, 0>> is +Inf, -Inf or NaN as n is
\* positive, negative or zero, which is what float64 division gives.
Quot(num, den) == IF den < 0 THEN <<-num, -den>> ELSE <<num, den>>
IsNeg(q) == q[1] < 0
IsPos(q) == q[1] > 0

\* The unit of Y = N/Throughput: every throughput used divides it, so
\* YScale * N / Throughput is an integer.
YScale == 60

RECURSIVE SumOf(_, _)
SumOf(f, n) == IF n = 0 THEN 0 ELSE f[n] + SumOf(f, n - 1)

\* part_002 lines 249-272 (and 322-335): the sums of the normal equations
\* over the samples with a non-zero throughput; the Y sums are in units of
\* 1/YScale.
NormalSums(results) ==
    LET n == Len(results)
        used(i) == results[i].Throughput # 0
        Y(i)  == (YScale * results[i].N) \div results[i].Throughput
        X1(i) == results[i].N - 1
        X2(i) == results[i].N * (results[i].N - 1)
        over(F(_)) == SumOf([i \in 1..n |-> IF used(i) THEN F(i) ELSE 0], n)
        one(i) == 1
        x1x1(i) == X1(i) * X1(i)
        x2x2(i) == X2(i) * X2(i)
        x1x2(i) == X1(i) * X2(i)
        yx1(i) == Y(i) * X1(i)
        yx2(i) == Y(i) * X2(i)
    IN  [ sumOne |-> over(one), sumY |-> over(Y),
          sumX1 |-> over(X1), sumX2 |-> over(X2),
          sumX1X1 |-> over(x1x1), sumX2X2 |-> over(x2x2),
          sumX1X2 |-> over(x1x2),
          sumYX1 |-> over(yx1), sumYX2 |-> over(yx2) ]

\* Faulty variant: only the samples that enter the sums are counted.
TooFewUsable(results) ==
    Cardinality({ i \in DOMAIN results : results[i].Throughput # 0 }) < 3

\* part_002 line 239.
TooFew(results) == Len(results) < 3

\* part_002 line 319: when the 2-parameter refit is attempted.
NeedsRefit(alpha, beta) == IsNeg(beta) /\ IsPos(alpha)

\* part_002 lines 238-369: FitUSL, in exact arithmetic.  Coefficients are
\* Quot pairs.  RSquared is "zero" for the values the code sets to 0 and
\* "residual" for 1 - ssRes/ssTot of lines 346-361, which is not evaluated.
\* path names the branch that produced the result.
FitUSL(results) ==
    IF TooFew(results)
    THEN [ err |-> "need at least 3 data points", path |-> "error",
           coeffs |-> [ Lambda |-> <<0, 1>>, Alpha |-> <<0, 1>>,
                        Beta |-> <<0, 1>>, RSquared |-> "zero" ] ]
    ELSE
    LET s == NormalSums(results)
        det == s.sumOne * (s.sumX1X1 * s.sumX2X2 - s.sumX1X2 * s.sumX1X2)
               - s.sumX1 * (s.sumX1 * s.sumX2X2 - s.sumX1X2 * s.sumX2)
               + s.sumX2 * (s.sumX1 * s.sumX1X2 - s.sumX1X1 * s.sumX2)
        det0 == s.sumY * (s.sumX1X1 * s.sumX2X2 - s.sumX1X2 * s.sumX1X2)
                - s.sumX1 * (s.sumYX1 * s.sumX2X2 - s.sumX1X2 * s.sumYX2)
                + s.sumX2 * (s.sumYX1 * s.sumX1X2 - s.sumX1X1 * s.sumYX2)
        det1 == s.sumOne * (s.sumYX1 * s.sumX2X2 - s.sumX1X2 * s.sumYX2)
                - s.sumY * (s.sumX1 * s.sumX2X2 - s.sumX1X2 * s.sumX2)
                + s.sumX2 * (s.sumX1 * s.sumYX2 - s.sumYX1 * s.sumX2)
        det2 == s.sumOne * (s.sumX1X1 * s.sumYX2 - s.sumYX1 * s.sumX1X2)
                - s.sumX1 * (s.sumX1 * s.sumYX2 - s.sumYX1 * s.sumX2)
                + s.sumY * (s.sumX1 * s.sumX1X2 - s.sumX1X1 * s.sumX2)
        \* lines 306-313: b0 = det0/det etc., so 1/b0 = det/det0,
        \* b1/b0 = det1/det0 and b2/b0 = det2/det0
        lambda == Quot(YScale * det, det0)
        alpha  == Quot(det1, det0)
        beta   == Quot(det2, det0)
        \* lines 337-340: the 2x2 system
        detR == s.sumOne * s.sumX1X1 - s.sumX1 * s.sumX1
        b0New == s.sumX1X1 * s.sumY - s.sumX1 * s.sumYX1
        b1New == s.sumOne * s.sumYX1 - s.sumX1 * s.sumY
    IN  IF det = 0
        THEN [ err |-> "nil", path |-> "degenerate",
               coeffs |-> [ Lambda |-> <<results[1].Throughput, 1>>,
                            Alpha |-> <<1, 100>>, Beta |-> <<0, 1>>,
                            RSquared |-> "zero" ] ]
        ELSE IF NeedsRefit(alpha, beta) /\ detR # 0
        THEN [ err |-> "nil", path |-> "refit",
               coeffs |-> [ Lambda |-> Quot(YScale * detR, b0New),
                            Alpha |-> Quot(b1New, b0New), Beta |-> <<0, 1>>,
                            RSquared |-> "residual" ] ]
        ELSE [ err |-> "nil", path |-> "full",
               coeffs |-> [ Lambda |-> lambda, Alpha |-> alpha, Beta |-> beta,
                            RSquared |-> "residual" ] ]

\* Benchmark results handed to the fitter: up to MaxResults samples with
\* N in 1..3 and a throughput of 0, 1, 2, 5 or 12 operations per second.
MaxResults == 3
FitNs == { 1, 2, 3 }
FitThroughputs == { 0, 1, 2, 5, 12 }
FitSamples == [ N : FitNs, Throughput : FitThroughputs ]
FitInputs == UNION { [1..k -> FitSamples] : k \in 0..MaxResults }

InitPure ==
    /\ g = NoCall
    /\ now = 0
    /\ call = NoCall
    /\ RaceIdle
    /\ TailIdle

ValidateCall(deltaCritical, deltaComplex) ==
    /\ LET c == NewCriticalityConstraint(deltaCritical, deltaComplex) IN
          call' = [ op |-> "validate", c |-> c, err |-> Validate(c) ]
    /\ UNCHANGED <<g, now, raceVars, tailVars>>

FitUSLCall(results) ==
    /\ call' = [ op |-> "fitUSL", results |-> results, ret |-> FitUSL(results) ]
    /\ UNCHANGED <<g, now, raceVars, tailVars>>

\* One call per behaviour.
NextPure ==
    \/ call = NoCall
        /\ \E dc \in ValidateCores, dx \in ValidateComplexities : ValidateCall(dc, dx)
    \/ call = NoCall
        /\ \E results \in FitInputs : FitUSLCall(results)

SpecPure == InitPure /\ [][NextPure]_vars

----------------------------------------------------------------------------
(* Properties of the stateless checkers.                                    *)

Validated == call.op = "validate"

\* DeltaComplexity / DeltaCriticalCore > delta, the comparison of the
\* Governor's deployment gate (a positive complexity over a zero core is
\* +Inf).
RatioAboveDelta(c) ==
    IF c.DeltaCriticalCore > 0
    THEN c.DeltaComplexity * 10000 > 46692 * c.DeltaCriticalCore
    ELSE IF c.DeltaCriticalCore < 0
    THEN c.DeltaComplexity * 10000 < 46692 * c.DeltaCriticalCore
    ELSE c.DeltaComplexity > 0

\* C32: the deployment constraint checker reports a violation exactly when
\* DeltaComplexity / DeltaCriticalCore > delta = 4.6692, and ok otherwise.
C32_ValidateLimitIsDelta ==
    Validated =>
        IF RatioAboveDelta(call.c) THEN call.err = "violation"
        ELSE call.err = "nil"

Fitted == call.op = "fitUSL"

\* The distinct concurrency levels among the samples that enter the sums.
\* The normal equations are singular exactly when there are fewer than 3.
UsableLevels ==
    { call.results[i].N :
        i \in { j \in DOMAIN call.results : call.results[j].Throughput # 0 } }

\* C33: FitUSL fails exactly when fewer than 3 samples are supplied; with 3
\* or more it returns coefficients, and when the system is singular these
\* are lambda = the first throughput, alpha = 0.01, beta = 0, R^2 = 0.
C33_FitFailsOnlyBelowThree ==
    Fitted =>
        /\ call.ret.err # "nil" <=> Len(call.results) < 3
        /\ (Len(call.results) >= 3 /\ Cardinality(UsableLevels) < 3) =>
              /\ call.ret.coeffs.Lambda = <<call.results[1].Throughput, 1>>
              /\ call.ret.coeffs.Alpha = <<1, 100>>
              /\ call.ret.coeffs.Beta = <<0, 1>>
              /\ call.ret.coeffs.RSquared = "zero"

\* Three samples, one of them with no throughput: no failure, and the
\* singular system gives the sentinel.
C33_Witness ==
    /\ Fitted
    /\ Len(call.results) = 3
    /\ call.results[1].Throughput = 5
    /\ call.results[2].Throughput = 0
    /\ Cardinality(UsableLevels) = 2
    /\ call.ret.err = "nil"
    /\ call.ret.coeffs.Lambda = <<5, 1>>
    /\ call.ret.coeffs.Alpha = <<1, 100>>

\* C34: every coefficient tuple FitUSL returns has beta >= 0.
C34_BetaNonNegative ==
    (Fitted /\ call.ret.err = "nil") => ~IsNeg(call.ret.coeffs.Beta)

----------------------------------------------------------------------------
(* GetStats beside a concurrent Record.  GetStats takes no lock itself: it  *)
(* reads t.sampleCount directly and fills every other field by a call that  *)
(* locks t.mu for its own duration only.  Record and each of those calls    *)
(* hold t.mu from entry to return, so each is one step here; the steps of   *)
(* one GetStats call interleave with Record.                                *)

StatsLatencies == { 1, 20 }

\* part_002 lines 520-535: Mean, under RLock.
Mean(tr) ==
    IF tr.sampleCount = 0 THEN 0
    ELSE LET k == effectiveSampleCount(tr) IN
         SumOf([ i \in 1 .. k |-> tr.samples[i] ], k) \div k

\* part_002 lines 494-498 on the two percentiles read: the ratio as the
\* pair <<p99, p50>>, 1.0 when p50 = 0.
TailDivergenceRatioFrom(p50, p99) ==
    IF p50 = 0 THEN <<1, 1>> ELSE <<p99, p50>>

\* part_002 lines 548-567: 0 when a percentile is 0 or the ratio is at most
\* 1, else log(0.99/0.50) / log(ratio), kept as the ratio it is taken of.
ParetoIndexFrom(p50, p99) ==
    IF p50 = 0 \/ p99 = 0 \/ p99 <= p50
    THEN [ zero |-> TRUE, ratio |-> <<1, 1>> ]
    ELSE [ zero |-> FALSE, ratio |-> <<p99, p50>> ]

\* part_002 line 573: ratio < 3.0.
IsGaussianFrom(p50, p99) ==
    LET q == TailDivergenceRatioFrom(p50, p99) IN q[1] < 3 * q[2]

\* part_002 line 580: ratio > 10.0.
IsPowerLawFrom(p50, p99) ==
    LET q == TailDivergenceRatioFrom(p50, p99) IN q[1] > 10 * q[2]

\* part_002 lines 664-677: the reads GetStats makes, in the order the struct
\* literal evaluates them.  The first read acquires no lock; the
\* derived fields read P50 and then P99, each under its own lock.
StatsProgram ==
    << [ field |-> "SampleCount",         part |-> "field" ],
       [ field |-> "Mean",                part |-> "mean"  ],
       [ field |-> "P50",                 part |-> "rank"  ],
       [ field |-> "P99",                 part |-> "rank"  ],
       [ field |-> "P999",                part |-> "rank"  ],
       [ field |-> "TailDivergenceRatio", part |-> "p50"   ],
       [ field |-> "TailDivergenceRatio", part |-> "p99"   ],
       [ field |-> "ParetoIndex",         part |-> "p50"   ],
       [ field |-> "ParetoIndex",         part |-> "p99"   ],
       [ field |-> "EstimatedR",          part |-> "p50"   ],
       [ field |-> "EstimatedR",          part |-> "p99"   ],
       [ field |-> "IsGaussian",          part |-> "p50"   ],
       [ field |-> "IsGaussian",          part |-> "p99"   ],
       [ field |-> "IsPowerLaw",          part |-> "p50"   ],
       [ field |-> "IsPowerLaw",          part |-> "p99"   ] >>

\* The zero TailStats.
EmptyStats ==
    [ SampleCount |-> 0, Mean |-> 0, P50 |-> 0, P99 |-> 0, P999 |-> 0,
      TailDivergenceRatio |-> <<1, 1>>,
      ParetoIndex |-> [ zero |-> TRUE, ratio |-> <<1, 1>> ],
      EstimatedR |-> <<0, 1>>, IsGaussian |-> FALSE, IsPowerLaw |-> FALSE ]

\* Where the GetStats call of reader p stands: 0 before the call, i when the
\* i-th read of StatsProgram is next, Len(StatsProgram) + 1 once returned.
StatsStep(p) == StatsProgram[tpc[p]]
InStats(p) == tpc[p] \in 1 .. Len(StatsProgram)

InitStats ==
    /\ g = NoCall
    /\ now = 0
    /\ call = NoCall
    /\ RaceIdle
    /\ t = NewTailDivergenceTracker(RingSize)
    /\ mu = Free
    /\ tpc = [ p \in Readers |-> 0 ]
    /\ tloc = [ p \in Readers |-> [ stats |-> EmptyStats, p50 |-> 0 ] ]
    /\ seen = [ p \in Readers |-> {} ]

\* part_002 lines 470-478: one Record call, t.mu held throughout.
StatsRecord(latency) ==
    /\ t.sampleCount < MaxWrites
    /\ t' = RecordBody(t, latency)
    /\ seen' = [ p \in Readers |->
                   IF InStats(p) THEN seen[p] \cup { Snapshot(t') } ELSE seen[p] ]
    /\ UNCHANGED <<govVars, raceVars, mu, tpc, tloc>>

\* part_002 line 664: GetStats is called.
GetStatsCall(p) ==
    /\ tpc[p] = 0
    /\ tpc' = [ tpc EXCEPT ![p] = 1 ]
    /\ seen' = [ seen EXCEPT ![p] = { Snapshot(t) } ]
    /\ UNCHANGED <<govVars, raceVars, t, mu, tloc>>

\* part_002 line 666: SampleCount: t.sampleCount, with no lock taken.
ReadSampleCount(p) ==
    /\ InStats(p)
    /\ StatsStep(p).part = "field"
    /\ tloc' = [ tloc EXCEPT ![p].stats.SampleCount = t.sampleCount ]
    /\ tpc' = [ tpc EXCEPT ![p] = @ + 1 ]
    /\ UNCHANGED <<govVars, raceVars, t, mu, seen>>

\* part_002 line 667.
ReadMean(p) ==
    /\ InStats(p)
    /\ StatsStep(p).part = "mean"
    /\ tloc' = [ tloc EXCEPT ![p].stats.Mean = Mean(t) ]
    /\ tpc' = [ tpc EXCEPT ![p] = @ + 1 ]
    /\ UNCHANGED <<govVars, raceVars, t, mu, seen>>

\* part_002 lines 668-670: the P50, P99 and P999 fields.
ReadPercentile(p) ==
    /\ InStats(p)
    /\ StatsStep(p).part = "rank"
    /\ LET f == StatsStep(p).field IN
       tloc' = [ tloc EXCEPT
                   ![p].stats.P50  = IF f = "P50"  THEN PercentileOf(t, 500) ELSE @,
                   ![p].stats.P99  = IF f = "P99"  THEN PercentileOf(t, 990) ELSE @,
                   ![p].stats.P999 = IF f = "P999" THEN PercentileOf(t, 999) ELSE @ ]
    /\ tpc' = [ tpc EXCEPT ![p] = @ + 1 ]
    /\ UNCHANGED <<govVars, raceVars, t, mu, seen>>

\* part_002 line 491 (and 549): the P50() call that opens a derived field.
ReadRatioP50(p) ==
    /\ InStats(p)
    /\ StatsStep(p).part = "p50"
    /\ tloc' = [ tloc EXCEPT ![p].p50 = PercentileOf(t, 500) ]
    /\ tpc' = [ tpc EXCEPT ![p] = @ + 1 ]
    /\ UNCHANGED <<govVars, raceVars, t, mu, seen>>

\* part_002 line 492 (and 550): the P99() call, then the field's own
\* arithmetic on the two values (lines 494-498, 552-566, 595-611, 573, 580).
ReadRatioP99(p) ==
    /\ InStats(p)
    /\ StatsStep(p).part = "p99"
    /\ LET f == StatsStep(p).field
           p50 == tloc[p].p50
           p99 == PercentileOf(t, 990)
       IN  tloc' = [ tloc EXCEPT
             ![p].stats.TailDivergenceRatio =
                 IF f = "TailDivergenceRatio"
                 THEN TailDivergenceRatioFrom(p50, p99) ELSE @,
             ![p].stats.ParetoIndex =
                 IF f = "ParetoIndex" THEN ParetoIndexFrom(p50, p99) ELSE @,
             ![p].stats.EstimatedR =
                 IF f = "EstimatedR" THEN EstimateRFrom(p50, p99) ELSE @,
             ![p].stats.IsGaussian =
                 IF f = "IsGaussian" THEN IsGaussianFrom(p50, p99) ELSE @,
             ![p].stats.IsPowerLaw =
                 IF f = "IsPowerLaw" THEN IsPowerLawFrom(p50, p99) ELSE @ ]
    /\ tpc' = [ tpc EXCEPT ![p] = @ + 1 ]
    /\ UNCHANGED <<govVars, raceVars, t, mu, seen>>

NextStats ==
    \/ \E latency \in StatsLatencies : StatsRecord(latency)
    \/ \E p \in Readers :
          \/ GetStatsCall(p)
          \/ ReadSampleCount(p)
          \/ ReadMean(p)
          \/ ReadPercentile(p)
          \/ ReadRatioP50(p)
          \/ ReadRatioP99(p)

SpecStats == InitStats /\ [][NextStats]_vars

----------------------------------------------------------------------------
(* Properties of GetStats.                                                  *)

StatsReturned(p) == tpc[p] = Len(StatsProgram) + 1

\* The TailStats one buffer state gives.
StatsOf(tr) ==
    LET p50 == PercentileOf(tr, 500)
        p99 == PercentileOf(tr, 990)
    IN  [ SampleCount |-> tr.sampleCount, Mean |-> Mean(tr),
          P50 |-> p50, P99 |-> p99, P999 |-> PercentileOf(tr, 999),
          TailDivergenceRatio |-> TailDivergenceRatioFrom(p50, p99),
          ParetoIndex |-> ParetoIndexFrom(p50, p99),
          EstimatedR |-> EstimateRFrom(p50, p99),
          IsGaussian |-> IsGaussianFrom(p50, p99),
          IsPowerLaw |-> IsPowerLawFrom(p50, p99) ]

\* C39: the TailStats a GetStats call returns is the one a single buffer
\* state of the call's duration gives: P50 <= P99 <= P99.9, the ratio is
\* P99/P50 of those values, and IsGaussian and IsPowerLaw are not both true.
C39_StatsFromOneSnapshot ==
    \A p \in Readers :
        StatsReturned(p) =>
            LET st == tloc[p].stats IN
            /\ \E s \in seen[p] : st = StatsOf(s)
            /\ st.P50 <= st.P99
            /\ st.P99 <= st.P999
            /\ st.TailDivergenceRatio = TailDivergenceRatioFrom(st.P50, st.P99)
            /\ ~(st.IsGaussian /\ st.IsPowerLaw)

----------------------------------------------------------------------------
(* The example HTTP server: LawBenchMiddleware.Wrap puts the Governor in    *)
(* front of a handler.  One request is one step: the middleware estimates r *)
(* from its own counters, asks the Governor, and either answers 503 or      *)
(* calls the wrapped handler.  Latencies are in milliseconds.               *)

MaxRequests == 3

\* What time.Since(start) measures for a request that was served.
Durations == { 0, 200, 400 }

\* The status codes the wrapped handler writes (handleOrder: 200, or 500 on
\* its simulated database failure).
HandlerStatuses == { 200, 500 }

\* with_lawbench.go lines 135-141; lastAction is the zero Action.
NewLawBenchMiddleware ==
    [ governor       |-> NewGovernor(1500000),
      requestCount   |-> 0,
      errorCount     |-> 0,
      totalLatencyMs |-> 0,
      currentR       |-> <<1500000, 1>>,
      lastAction     |-> [ Type |-> "" ] ]

\* with_lawbench.go lines 148-157: estimatedR = 1.5 + avgLatency / 100
\* + errorRate * 2, as a pair <<numerator, denominator>> in units of 1e-6.
EstimatedR(m) ==
    IF m.requestCount > 0
    THEN << 1500000 * m.requestCount + 10000 * m.totalLatencyMs
              + 2000000 * m.errorCount,
            m.requestCount >>
    ELSE <<1500000, 1>>

\* with_lawbench.go lines 159-163: the record handed to the Governor; the
\* fields the literal does not name are zero.
MiddlewareMetrics(estimatedR) ==
    [ Metrics(<<0, 0, 0, 0, 0>>, <<0, 0>>) EXCEPT !.EstimatedCoupling = estimatedR ]

InitHTTP ==
    /\ g = NewLawBenchMiddleware
    /\ now = 0
    /\ call = NoCall
    /\ RaceIdle
    /\ TailIdle

\* with_lawbench.go lines 144-187: the handler Wrap returns, for one request.
\* served tells whether next.ServeHTTP was called, status what the client got.
ServeRequest(duration, handlerStatus) ==
    /\ g.requestCount < MaxRequests
    /\ LET estimatedR == EstimatedR(g)
           metrics == MiddlewareMetrics(estimatedR)
           res == CheckStructuralIntegrity(g.governor, metrics, now)
           shed == res.action.Type = "THROTTLE"
       IN  /\ g' = [ g EXCEPT
                       !.governor = res.gov,
                       !.requestCount = @ + 1,
                       !.lastAction = res.action,
                       !.currentR = estimatedR,
                       !.errorCount = IF shed THEN @ + 1 ELSE @,
                       !.totalLatencyMs = IF shed THEN @ ELSE @ + duration ]
           /\ call' = [ op |-> "request", estimatedR |-> estimatedR,
                        r |-> CalculateSystemDNA(metrics),
                        action |-> res.action,
                        served |-> ~shed,
                        status |-> IF shed THEN 503 ELSE handlerStatus,
                        duration |-> IF shed THEN 0 ELSE duration ]
    /\ UNCHANGED <<now, raceVars, tailVars>>

NextHTTP ==
    \/ \E duration \in Durations, status \in HandlerStatuses :
          ServeRequest(duration, status)
    \/ Tick

SpecHTTP == InitHTTP /\ [][NextHTTP]_vars

----------------------------------------------------------------------------
(* Property of the example middleware.                                      *)

Requested == call.op = "request"

\* C40: a request that arrives while the middleware's estimated r is above
\* 3.0 gets a Throttle action from the Governor and the answer 503, and the
\* wrapped handler is not invoked for it.
C40_MiddlewareSheds ==
    (Requested /\ call.estimatedR[1] > 3000000 * call.estimatedR[2]) =>
        /\ call.action.Type = "THROTTLE"
        /\ call.status = 503
        /\ ~call.served

====
